---- MODULE Spec2Model ----
(***************************************************************************)
(* Currency ledger backend (PostgreSQL variant of the currency routes).    *)
(*                                                                         *)
(* The store is the PostgreSQL database behind a pg.Pool: the tables       *)
(* user_funds, daily_rewards and currency_transactions.  Every `await` of  *)
(* a handler is one step: the database executes the awaited query and the  *)
(* handler's continuation runs up to its next await (node runs one         *)
(* continuation at a time).  Statements of an open transaction are kept    *)
(* as pending writes of the pool connection that ran them until that       *)
(* connection runs COMMIT or ROLLBACK; row locks belong to connections.    *)
(* Isolation is READ COMMITTED (the PostgreSQL default): a statement that  *)
(* waited for a row lock works on the row as last committed.               *)
(***************************************************************************)
EXTENDS Integers, Sequences, FiniteSets, TLC

\* ---------------------------------------------------------------- bounds
MaxRequests == 2      \* requests served in one behaviour
MaxInFlight == 2      \* requests being served at the same time
PoolSize == 2         \* connections of the pg.Pool
MaxRetries == 1       \* times withTransaction runs its callback again

\* ------------------------------------------------------- program constants
DAILY_REWARD_AMOUNT == 50
DefaultDenomination == 1000
ResetMinute == 390    \* 06:30 as minutes after local midnight
DayMinutes == 1440
HourMinutes == 60

Accts == {"A", "B", "C"}
Conns == 1..PoolSize
Reqs == 1..MaxInFlight
NoConn == 0
NoClaim == -1
NotRead == -1
NoDate == -1

\* ------------------------------------------------- JavaScript number values
\* A request-body value: a non-number, or a number that is an integer (val),
\* a positive-or-negative fraction (val + 1/2), NaN or +Infinity.
Str == [typ |-> "string", cls |-> "int", val |-> 0]
Num(v) == [typ |-> "number", cls |-> "int", val |-> v]
Frac(v) == [typ |-> "number", cls |-> "frac", val |-> v]
NaN == [typ |-> "number", cls |-> "nan", val |-> 0]
Inf == [typ |-> "number", cls |-> "inf", val |-> 0]

\* typeof x === "number"
IsNumber(x) == x.typ = "number"

\* x <= 0
LeqZero(x) ==
    CASE x.cls = "int" -> x.val <= 0
      [] x.cls = "frac" -> x.val < 0
      [] OTHER -> FALSE

\* b < x for an integer b
LessThan(b, x) ==
    CASE x.cls = "int" -> b < x.val
      [] x.cls = "frac" -> b <= x.val
      [] x.cls = "inf" -> TRUE
      [] OTHER -> FALSE

\* The text of x is accepted as a parameter of integer arithmetic on balance.
IsIntegerParam(x) == x.cls = "int"

\* ------------------------------------------------------------------ state
VARIABLES
    name,      \* user_funds.name per uuid, "" when the row does not exist
    balance,   \* user_funds.balance per uuid (0 when the row does not exist)
    daily,     \* daily_rewards.last_claim_at per uuid, NoClaim when no row
    log,       \* currency_transactions, in insertion order
    now,       \* wall clock when it was last read, minutes
    holder,    \* per pool connection: the request holding it, 0 when not held
    idle,      \* the pool's idle clients, most recently released last
    inTxn,     \* per pool connection: a transaction block is open
    pName,     \* per connection: uncommitted name writes ("" none)
    pBal,      \* per connection: uncommitted balance deltas
    pDaily,    \* per connection: uncommitted last_claim_at (NoClaim none)
    pLog,      \* per connection: uncommitted log inserts
    lock,      \* per user_funds row: the connection holding its row lock
    req,       \* per request slot: the handler's locals and position
    last,      \* the request answered last, with its response
    started,   \* requests served so far
    committed, \* per uuid: sum of the deltas asked for by committed operations
    mobLimit,  \* mob_limit_reached.date_reached per uuid, NoDate when no row
    pMob       \* per connection: uncommitted date_reached (NoDate none)

store == <<name, balance, daily, log, mobLimit>>
pend == <<pName, pBal, pDaily, pLog, pMob>>
vars == <<name, balance, daily, log, now, holder, idle, inTxn,
          pName, pBal, pDaily, pLog, lock, req, last, started, committed,
          mobLimit, pMob>>

InitBalance == [a \in Accts |-> CASE a = "A" -> 2 [] a = "B" -> 1 [] OTHER -> 0]

NoDelta == [a \in Accts |-> 0]
NoNames == [a \in Accts |-> ""]
NoClaims == [a \in Accts |-> NoClaim]
NoDates == [a \in Accts |-> NoDate]

IdleReq ==
    [op |-> "none", pc |-> "idle", uuid |-> "", to |-> "", pname |-> "",
     amount |-> Num(0), count |-> Num(0), denom |-> 0, at |-> 0,
     conn |-> NoConn, bal |-> NotRead, newBal |-> NotRead, status |-> 0, err |-> "",
     hours |-> 0, minutes |-> 0, auth |-> <<>>, remote |-> <<>>, xff |-> <<>>,
     limitReached |-> FALSE, top |-> <<>>, discordId |-> "",
     dBal |-> NoDelta, nLog |-> 0, dDaily |-> FALSE, tries |-> 0]

\* The state with no request in flight, the clock reading t, the
\* connections of the pool having the transaction blocks txn open and the
\* rows marks in mob_limit_reached.
StartState(t, txn, marks) ==
    /\ name = [a \in Accts |-> CASE a = "A" -> "Steve" [] a = "B" -> "Alex" [] OTHER -> ""]
    /\ balance = InitBalance
    /\ daily = NoClaims
    /\ log = <<>>
    /\ now = t
    /\ holder = [c \in Conns |-> 0]
    /\ idle = <<1>>
    /\ inTxn = txn
    /\ pName = [c \in Conns |-> NoNames]
    /\ pBal = [c \in Conns |-> NoDelta]
    /\ pDaily = [c \in Conns |-> NoClaims]
    /\ pLog = [c \in Conns |-> <<>>]
    /\ lock = [a \in Accts |-> NoConn]
    /\ req = [r \in Reqs |-> IdleReq]
    /\ last = IdleReq
    /\ started = 0
    /\ committed = NoDelta
    /\ mobLimit = marks
    /\ pMob = [c \in Conns |-> NoDates]

\* The state after construction, the clock reading t.
Start(t) == StartState(t, [c \in Conns |-> FALSE], NoDates)

Init == Start(360)

\* ------------------------------------------------------- store, as SQL sees it
\* The row of uuid a is visible to a statement run on connection c.
Visible(c, a) == name[a] # "" \/ pName[c][a] # ""

\* The balance a statement on connection c reads for uuid a.
BalanceSeen(c, a) == balance[a] + pBal[c][a]

\* Connection c may take the row lock of a.
LockFree(c, a) == lock[a] \in {NoConn, c}

SumBalances == balance["A"] + balance["B"] + balance["C"]

\* --------------------------------------------------------- transactions
ClearPending(c) ==
    /\ pName' = [pName EXCEPT ![c] = NoNames]
    /\ pBal' = [pBal EXCEPT ![c] = NoDelta]
    /\ pDaily' = [pDaily EXCEPT ![c] = NoClaims]
    /\ pLog' = [pLog EXCEPT ![c] = <<>>]
    /\ pMob' = [pMob EXCEPT ![c] = NoDates]

ReleaseLocks(c) == lock' = [a \in Accts |-> IF lock[a] = c THEN NoConn ELSE lock[a]]

\* COMMIT on connection c: its pending writes become the stored rows.
TxnCommit(c) ==
    /\ name' = [a \in Accts |-> IF pName[c][a] # "" THEN pName[c][a] ELSE name[a]]
    /\ balance' = [a \in Accts |-> balance[a] + pBal[c][a]]
    /\ daily' = [a \in Accts |-> IF pDaily[c][a] # NoClaim THEN pDaily[c][a] ELSE daily[a]]
    /\ log' = log \o pLog[c]
    /\ mobLimit' = [a \in Accts |-> IF pMob[c][a] # NoDate THEN pMob[c][a] ELSE mobLimit[a]]
    /\ ClearPending(c)
    /\ ReleaseLocks(c)
    /\ inTxn' = [inTxn EXCEPT ![c] = FALSE]

\* The transaction of connection c ends without effect: ROLLBACK, or the
\* abort PostgreSQL performs when a statement of the block fails.
TxnAbort(c) ==
    /\ UNCHANGED store
    /\ ClearPending(c)
    /\ ReleaseLocks(c)

\* ROLLBACK: the whole open block of c is undone and closed.
RollbackCommits(c) == TxnCommit(c)
TxnRollback(c) ==
    /\ TxnAbort(c)
    /\ inTxn' = [inTxn EXCEPT ![c] = FALSE]

\* ------------------------------------------------------------- the pool
\* Clients the pool has not opened yet (it opens at most PoolSize).
Unopened == {c \in Conns : holder[c] = 0 /\ \A i \in 1..Len(idle) : idle[i] # c}

\* The client pool.connect() hands out: the idle client released last, or a
\* newly opened one while fewer than PoolSize are open; NoConn: wait.
NextClient ==
    IF idle # <<>> THEN idle[Len(idle)]
    ELSE IF Unopened # {} THEN CHOOSE c \in Unopened : \A d \in Unopened : c <= d
    ELSE NoConn

\* What is left idle once NextClient is handed out.
IdleAfterConnect == IF idle # <<>> THEN SubSeq(idle, 1, Len(idle) - 1) ELSE idle

\* pool.connect() resolves for request r with client c.
Acquire(r, c) ==
    /\ c = NextClient
    /\ holder' = [holder EXCEPT ![c] = r]
    /\ idle' = IdleAfterConnect

\* client.release()
Release(c) ==
    /\ holder' = [holder EXCEPT ![c] = 0]
    /\ idle' = Append(idle, c)

\* A db.query ran on NextClient and gave it back; then client.release() of c.
ReleaseAfterQuery(c) ==
    /\ holder' = [holder EXCEPT ![c] = 0]
    /\ idle' = Append(Append(IdleAfterConnect, NextClient), c)

\* pool.connect() gives up after connectionTimeoutMillis when every client
\* stays checked out.
PoolExhausted == NextClient = NoConn

\* ------------------------------------------------------------- requests
\* Slots only name the requests in flight: a new request takes the lowest
\* free one.
Free(r) == req[r].pc = "idle"
SlotFree(r) == Free(r) /\ started < MaxRequests /\ \A q \in Reqs : q < r => ~Free(q)

NewReq(o, u) == [IdleReq EXCEPT !.op = o, !.uuid = u]

\* The handler of request r moves on with locals rec; once it has answered,
\* its slot is free again and rec is kept as the last answered request.
Step(r, rec) ==
    IF rec.pc = "done"
    THEN req' = [req EXCEPT ![r] = IdleReq] /\ last' = rec
    ELSE req' = [req EXCEPT ![r] = rec] /\ last' = last

\* res.status(s).json({error: e}) / res.json(...): the handler is over.
Respond(rec, s, e) == [rec EXCEPT !.pc = "done", !.status = s, !.err = e, !.conn = NoConn]

\* throw new Error(e) inside the try block: on to the catch block.
Throw(rec, e) == [rec EXCEPT !.pc = "rollback", !.err = e]

\* The record INSERTed by logTransactions.
LogRecord(rec, action, amt, from, to, denomination, cnt, balAfter) ==
    [uuid |-> rec.uuid, action |-> action, amount |-> amt, from_uuid |-> from,
     to_uuid |-> to, denomination |-> denomination, count |-> cnt,
     balance_after |-> balAfter]

\* logTransactions(db, data): db.query on an idle client c2 of the pool; the
\* INSERT joins the block c2 was released with, if any.
LogInsertOn(c2, rec) ==
    IF inTxn[c2]
    THEN /\ pLog' = [pLog EXCEPT ![c2] = Append(@, rec)]
         /\ UNCHANGED log
    ELSE /\ log' = Append(log, rec)
         /\ UNCHANGED pLog

\* ---------------------------------------------------- POST /currency/login
\* The handler up to its first await: validation, then db.query.
LoginEntry(rec) ==
    IF rec.uuid = "" \/ rec.pname = ""
    THEN Respond(rec, 400, "Missing uuid or name")
    ELSE [rec EXCEPT !.pc = "connect"]

LoginArrive(r, u, nm) ==
    /\ SlotFree(r)
    /\ started' = started + 1
    /\ Step(r, LoginEntry([NewReq("login", u) EXCEPT !.pname = nm]))
    /\ UNCHANGED <<store, pend, now, holder, idle, inTxn, lock, committed>>

\* db.query: the pool hands out an idle client.
LoginConnect(r) ==
    /\ req[r].op = "login" /\ req[r].pc = "connect"
    /\ \E c \in Conns :
         /\ Acquire(r, c)
         /\ Step(r, [req[r] EXCEPT !.conn = c, !.pc = "insert"])
    /\ UNCHANGED <<store, pend, now, inTxn, lock, started, committed>>

\* VALUES ($1, $2, 0) ON CONFLICT (uuid) DO UPDATE SET name = EXCLUDED.name:
\* the balance the row of u holds after the statement, run on connection c.
UpsertBalance(c, u) == IF Visible(c, u) THEN BalanceSeen(c, u) ELSE 0

\* INSERT ... ON CONFLICT (uuid) DO UPDATE SET name, then jwt.sign, res.json.
LoginInsert(r) ==
    LET c == req[r].conn  u == req[r].uuid IN
    /\ req[r].op = "login" /\ req[r].pc = "insert"
    /\ LockFree(c, u)
    /\ IF inTxn[c]
       THEN /\ pName' = [pName EXCEPT ![c][u] = req[r].pname]
            /\ pBal' = [pBal EXCEPT ![c][u] = UpsertBalance(c, u) - balance[u]]
            /\ lock' = [lock EXCEPT ![u] = c]
            /\ UNCHANGED <<name, balance>>
       ELSE /\ name' = [name EXCEPT ![u] = req[r].pname]
            /\ balance' = [balance EXCEPT ![u] = UpsertBalance(c, u)]
            /\ UNCHANGED <<pName, pBal, lock>>
    /\ Release(c)
    /\ Step(r, Respond(req[r], 200, ""))
    /\ UNCHANGED <<daily, log, mobLimit, pDaily, pLog, pMob, now, inTxn, started,
                   committed>>

\* ------------------------------------------------------ POST /currency/pay
\* The balance deltas a transfer of v from one uuid to another asks for.
TransferDelta(from, to, v) ==
    [a \in Accts |-> (IF a = to THEN v ELSE 0) - (IF a = from THEN v ELSE 0)]

\* SET balance = balance - $1 and SET balance = balance + $1
DebitsTwice(b, v) == b - v - v
DebitExpr(b, v) == b - v
CreditTwice(b, v) == b + v + v
CreditTakes(b, v) == b - v
CreditExpr(b, v) == b + v

\* UPDATE user_funds SET balance = newValue WHERE uuid = u, run on connection
\* c, which holds the row lock of u.
SetBalance(c, u, newValue) == pBal' = [pBal EXCEPT ![c][u] = newValue - balance[u]]

\* The SELECT of the payer's / claimant's row carries FOR UPDATE.
NoForUpdate == FALSE
ForUpdate == TRUE

\* if (senderBalance < amount) throw "Insufficient funds"
FundsCheckOffByOne(bal, amt) == LessThan(bal + 1, amt)
InsufficientFunds(bal, amt) == LessThan(bal, amt)

\* Validation, then db.connect() is asked for a client.
PayArrive(r, u, t, amt) ==
    /\ SlotFree(r)
    /\ started' = started + 1
    /\ Step(r, LET rec == [NewReq("pay", u) EXCEPT !.to = t, !.amount = amt] IN
                 IF u = "" \/ t = "" \/ ~IsNumber(amt)
                 THEN Respond(rec, 400, "Invalid input")
                 ELSE IF LeqZero(amt)
                 THEN Respond(rec, 400, "Amount must be positive")
                 ELSE [rec EXCEPT !.pc = "connect"])
    /\ UNCHANGED <<store, pend, now, holder, idle, inTxn, lock, committed>>

\* client = await db.connect(); await client.query("BEGIN")
PayConnect(r) ==
    /\ req[r].op = "pay" /\ req[r].pc = "connect"
    /\ \E c \in Conns :
         /\ Acquire(r, c)
         /\ inTxn' = [inTxn EXCEPT ![c] = TRUE]
         /\ Step(r, [req[r] EXCEPT !.conn = c, !.pc = "select"])
    /\ UNCHANGED <<store, pend, now, lock, started, committed>>

\* SELECT balance ... WHERE uuid = from_uuid FOR UPDATE, and the two checks.
PaySelectSender(r) ==
    LET c == req[r].conn  u == req[r].uuid  b == BalanceSeen(c, u) IN
    /\ req[r].op = "pay" /\ req[r].pc = "select"
    /\ IF ~Visible(c, u)
       THEN /\ Step(r, Throw(req[r], "Sender not found"))
            /\ UNCHANGED lock
       ELSE /\ ForUpdate => LockFree(c, u)
            /\ lock' = IF ForUpdate THEN [lock EXCEPT ![u] = c] ELSE lock
            /\ Step(r, IF InsufficientFunds(b, req[r].amount)
                         THEN Throw([req[r] EXCEPT !.bal = b], "Insufficient funds")
                         ELSE [req[r] EXCEPT !.bal = b, !.pc = "debit",
                                             !.newBal = b - req[r].amount.val])
    /\ UNCHANGED <<store, pend, now, holder, idle, inTxn, started, committed>>

\* A statement of the open block fails: PostgreSQL aborts the block.
StatementFails(r, c, e) ==
    /\ TxnAbort(c)
    /\ Step(r, Throw(req[r], e))

\* UPDATE user_funds SET balance = balance - amount WHERE uuid = from_uuid
PayDebit(r) ==
    LET c == req[r].conn  u == req[r].uuid  amt == req[r].amount IN
    /\ req[r].op = "pay" /\ req[r].pc = "debit"
    /\ IF ~IsIntegerParam(amt)
       THEN StatementFails(r, c, "invalid input syntax for type integer")
       ELSE /\ LockFree(c, u)
            /\ lock' = [lock EXCEPT ![u] = c]
            /\ SetBalance(c, u, DebitExpr(BalanceSeen(c, u), amt.val))
            /\ Step(r, [req[r] EXCEPT !.pc = "credit"])
            /\ UNCHANGED <<store, pName, pDaily, pLog, pMob>>
    /\ UNCHANGED <<now, holder, idle, inTxn, started, committed>>

\* UPDATE user_funds SET balance = balance + amount WHERE uuid = to_uuid
\* RETURNING *, and the rowCount check.
PayCredit(r) ==
    LET c == req[r].conn  t == req[r].to  amt == req[r].amount IN
    /\ req[r].op = "pay" /\ req[r].pc = "credit"
    /\ IF ~Visible(c, t)
       THEN /\ Step(r, Throw(req[r], "Recipient not found"))
            /\ UNCHANGED <<lock, pBal>>
       ELSE /\ LockFree(c, t)
            /\ lock' = [lock EXCEPT ![t] = c]
            /\ SetBalance(c, t, CreditExpr(BalanceSeen(c, t), amt.val))
            /\ Step(r, [req[r] EXCEPT !.pc = "commit"])
    /\ UNCHANGED <<store, pName, pDaily, pLog, pMob, now, holder, idle, inTxn,
                   started, committed>>

\* What a committing step of request r changed in the stored rows.
Observed(rec) ==
    [rec EXCEPT !.dBal = [a \in Accts |-> @[a] + balance'[a] - balance[a]],
                !.nLog = @ + Len(log') - Len(log),
                !.dDaily = @ \/ daily' # daily]

\* await client.query("COMMIT")
PayCommit(r) ==
    LET c == req[r].conn IN
    /\ req[r].op = "pay" /\ req[r].pc = "commit"
    /\ TxnCommit(c)
    /\ Step(r, Observed([req[r] EXCEPT !.pc = "log"]))
    /\ committed' = [a \in Accts |-> committed[a]
                        + TransferDelta(req[r].uuid, req[r].to, req[r].amount.val)[a]]
    /\ UNCHANGED <<now, holder, idle, started>>

\* await logTransactions(db, {...}); res.json({success, new_sender_balance});
\* finally client.release()
PayLog(r) ==
    LET c == req[r].conn IN
    /\ req[r].op = "pay" /\ req[r].pc = "log"
    /\ ~PoolExhausted
    /\ LogInsertOn(NextClient, LogRecord(req[r], "pay", req[r].amount.val, req[r].uuid,
                                      req[r].to, 0, 0, req[r].newBal))
    /\ ReleaseAfterQuery(c)
    /\ UNCHANGED <<name, balance, daily, mobLimit, pName, pBal, pDaily, pMob, now, inTxn,
                   lock, started, committed>>
    /\ Step(r, Observed(Respond(req[r], 200, "")))

\* logTransactions rejects: the pool has no client to give within
\* connectionTimeoutMillis.
LogTimeout(r) ==
    /\ req[r].op \in {"pay", "deposit", "withdraw"} /\ req[r].pc = "log"
    /\ PoolExhausted
    /\ Step(r, Throw(req[r], "timeout exceeded when trying to connect"))
    /\ UNCHANGED <<store, pend, now, holder, idle, inTxn, lock, started, committed>>

\* catch: await client.query("ROLLBACK"); res.status(400).json({error});
\* finally client.release()
CatchStatus(o) == IF o = "daily" THEN 500 ELSE 400

CatchRollback(r) ==
    LET c == req[r].conn IN
    /\ req[r].op \in {"pay", "deposit", "withdraw", "daily"} /\ req[r].pc = "rollback"
    /\ TxnRollback(c)
    /\ Release(c)
    /\ Step(r, Observed(Respond(req[r], CatchStatus(req[r].op), req[r].err)))
    /\ UNCHANGED <<now, started, committed>>

\* -------------------------------------------------- POST /currency/deposit
\* The handler up to its first await: validation, then db.connect().
DepositEntry(rec) ==
    IF rec.uuid = "" \/ ~IsNumber(rec.amount) \/ LeqZero(rec.amount)
    THEN Respond(rec, 400, "Invalid input")
    ELSE [rec EXCEPT !.pc = "connect"]

DepositArrive(r, u, amt) ==
    /\ SlotFree(r)
    /\ started' = started + 1
    /\ Step(r, DepositEntry([NewReq("deposit", u) EXCEPT !.amount = amt]))
    /\ UNCHANGED <<store, pend, now, holder, idle, inTxn, lock, committed>>

DepositConnect(r) ==
    /\ req[r].op = "deposit" /\ req[r].pc = "connect"
    /\ \E c \in Conns :
         /\ Acquire(r, c)
         /\ inTxn' = [inTxn EXCEPT ![c] = TRUE]
         /\ Step(r, [req[r] EXCEPT !.conn = c, !.pc = "update"])
    /\ UNCHANGED <<store, pend, now, lock, started, committed>>

\* UPDATE user_funds SET balance = balance + amount WHERE uuid RETURNING
\* balance; rowCount === 0 answers 404 from inside the try block, and the
\* finally block releases the client with its BEGIN still open.
DepositUpdate(r) ==
    LET c == req[r].conn  u == req[r].uuid  amt == req[r].amount IN
    /\ req[r].op = "deposit" /\ req[r].pc = "update"
    /\ IF ~IsIntegerParam(amt)
       THEN /\ StatementFails(r, c, "invalid input syntax for type integer")
            /\ UNCHANGED <<holder, idle>>
       ELSE IF ~Visible(c, u)
       THEN /\ Step(r, Respond(req[r], 404, "User not found"))
            /\ Release(c)
            /\ UNCHANGED <<store, pend, lock>>
       ELSE /\ LockFree(c, u)
            /\ lock' = [lock EXCEPT ![u] = c]
            /\ SetBalance(c, u, CreditExpr(BalanceSeen(c, u), amt.val))
            /\ Step(r, [req[r] EXCEPT !.newBal = CreditExpr(BalanceSeen(c, u), amt.val),
                                      !.pc = "commit"])
            /\ UNCHANGED <<store, pName, pDaily, pLog, pMob, holder, idle>>
    /\ UNCHANGED <<now, inTxn, started, committed>>

DepositCommit(r) ==
    LET c == req[r].conn IN
    /\ req[r].op = "deposit" /\ req[r].pc = "commit"
    /\ TxnCommit(c)
    /\ Step(r, Observed([req[r] EXCEPT !.pc = "log"]))
    /\ committed' = [committed EXCEPT ![req[r].uuid] = @ + req[r].amount.val]
    /\ UNCHANGED <<now, holder, idle, started>>

DepositLog(r) ==
    LET c == req[r].conn IN
    /\ req[r].op = "deposit" /\ req[r].pc = "log"
    /\ ~PoolExhausted
    /\ LogInsertOn(NextClient, LogRecord(req[r], "deposit", req[r].amount.val, "", "",
                                      0, 0, req[r].newBal))
    /\ ReleaseAfterQuery(c)
    /\ UNCHANGED <<name, balance, daily, mobLimit, pName, pBal, pDaily, pMob, now, inTxn,
                   lock, started, committed>>
    /\ Step(r, Observed(Respond(req[r], 200, "")))

\* ------------------------------------------------- POST /currency/withdraw
\* count * denom
Mul(x, y) == Num(x.val * y.val)

\* typeof denomination === "number" ? denomination : 1000
Denom(d) == IF IsNumber(d) THEN d ELSE Num(DefaultDenomination)

WithdrawArrive(r, u, cnt, d) ==
    /\ SlotFree(r)
    /\ started' = started + 1
    /\ Step(r, LET rec == [NewReq("withdraw", u) EXCEPT !.count = cnt] IN
                 IF u = "" \/ ~IsNumber(cnt) \/ LeqZero(cnt)
                 THEN Respond(rec, 400, "Invalid count or uuid")
                 ELSE [rec EXCEPT !.denom = Denom(d).val,
                                  !.amount = Mul(cnt, Denom(d)),
                                  !.pc = "connect"])
    /\ UNCHANGED <<store, pend, now, holder, idle, inTxn, lock, committed>>

WithdrawConnect(r) ==
    /\ req[r].op = "withdraw" /\ req[r].pc = "connect"
    /\ \E c \in Conns :
         /\ Acquire(r, c)
         /\ inTxn' = [inTxn EXCEPT ![c] = TRUE]
         /\ Step(r, [req[r] EXCEPT !.conn = c, !.pc = "select"])
    /\ UNCHANGED <<store, pend, now, lock, started, committed>>

\* SELECT balance ... FOR UPDATE and the two checks.
WithdrawSelect(r) ==
    LET c == req[r].conn  u == req[r].uuid  b == BalanceSeen(c, u) IN
    /\ req[r].op = "withdraw" /\ req[r].pc = "select"
    /\ IF ~Visible(c, u)
       THEN /\ Step(r, Throw(req[r], "User not found"))
            /\ UNCHANGED lock
       ELSE /\ ForUpdate => LockFree(c, u)
            /\ lock' = IF ForUpdate THEN [lock EXCEPT ![u] = c] ELSE lock
            /\ Step(r, IF InsufficientFunds(b, req[r].amount)
                         THEN Throw([req[r] EXCEPT !.bal = b], "Insufficient funds")
                         ELSE [req[r] EXCEPT !.bal = b, !.pc = "update"])
    /\ UNCHANGED <<store, pend, now, holder, idle, inTxn, started, committed>>

\* UPDATE user_funds SET balance = balance - amount ... RETURNING balance
WithdrawUpdate(r) ==
    LET c == req[r].conn  u == req[r].uuid  amt == req[r].amount IN
    /\ req[r].op = "withdraw" /\ req[r].pc = "update"
    /\ LockFree(c, u)
    /\ lock' = [lock EXCEPT ![u] = c]
    /\ SetBalance(c, u, DebitExpr(BalanceSeen(c, u), amt.val))
    /\ Step(r, [req[r] EXCEPT !.newBal = DebitExpr(BalanceSeen(c, u), amt.val),
                              !.pc = "commit"])
    /\ UNCHANGED <<store, pName, pDaily, pLog, pMob, now, holder, idle, inTxn,
                   started, committed>>

WithdrawCommit(r) ==
    LET c == req[r].conn IN
    /\ req[r].op = "withdraw" /\ req[r].pc = "commit"
    /\ TxnCommit(c)
    /\ Step(r, Observed([req[r] EXCEPT !.pc = "log"]))
    /\ committed' = [committed EXCEPT ![req[r].uuid] = @ - req[r].amount.val]
    /\ UNCHANGED <<now, holder, idle, started>>

WithdrawLog(r) ==
    LET c == req[r].conn IN
    /\ req[r].op = "withdraw" /\ req[r].pc = "log"
    /\ ~PoolExhausted
    /\ LogInsertOn(NextClient, LogRecord(req[r], "withdraw", req[r].amount.val, "", "",
                                      req[r].denom, req[r].count.val, req[r].newBal))
    /\ ReleaseAfterQuery(c)
    /\ UNCHANGED <<name, balance, daily, mobLimit, pName, pBal, pDaily, pMob, now, inTxn,
                   lock, started, committed>>
    /\ Step(r, Observed(Respond(req[r], 200, "")))

\* ---------------------------------------------------- POST /currency/daily
\* TIMEZONE = "Europe/Berlin".  Instants are minutes on the absolute time
\* line; day 0 starts at instant 0.  The zone's clocks go back one hour at
\* 03:00 of FallBackDay and forward one hour at 02:00 of SpringForwardDay, so
\* those days last 25 and 23 hours.
FallBackDay == 5
SpringForwardDay == 7
DayLength(k) ==
    CASE k = FallBackDay -> DayMinutes + HourMinutes
      [] k = SpringForwardDay -> DayMinutes - HourMinutes
      [] OTHER -> DayMinutes

\* The instant at which local day k starts: the lengths of the days before.
DayStart(k) ==
    k * DayMinutes + (IF k > FallBackDay THEN HourMinutes ELSE 0)
                   - (IF k > SpringForwardDay THEN HourMinutes ELSE 0)

\* The local calendar day instant t falls on.
DayOf(t) ==
    LET k == t \div DayMinutes IN
    IF t < DayStart(k) THEN k - 1 ELSE k

\* set({hour: 6, minute: 30, second: 0, millisecond: 0}) on day k: both clock
\* changes come before 06:30, so they move it on the time line.
ResetAt(k) == DayStart(k) + ResetMinute + (DayLength(k) - DayMinutes)

\* getLastReset(now): today's 06:30; when now is before it,
\* resetTime.minus({days: 1}), which is 06:30 of the day before.
TodaysReset(t) == ResetAt(DayOf(t))
GetLastReset(t) ==
    LET resetTime == ResetAt(DayOf(t)) IN
    IF t < resetTime THEN ResetAt(DayOf(t) - 1) ELSE resetTime

\* nextReset = lastReset.plus({days: 1}): 06:30 of the following day.
ResetPlus24h(lastReset) == lastReset + DayMinutes
NextReset(lastReset) == ResetAt(DayOf(lastReset) + 1)

\* diff = nextReset.diff(now, ["hours", "minutes"]); Math.floor of each.
RemainingHours(t) == (NextReset(GetLastReset(t)) - t) \div HourMinutes
RemainingMinutes(t) == (NextReset(GetLastReset(t)) - t) % HourMinutes

\* now = DateTime.now(), d minutes after the clock was last read;
\* lastReset = getLastReset(now); db.connect()
DailyArrive(r, u, d) ==
    /\ SlotFree(r)
    /\ started' = started + 1
    /\ now' = now + d
    /\ Step(r, IF u = ""
                 THEN Respond(NewReq("daily", u), 400, "Missing uuid")
                 ELSE [NewReq("daily", u) EXCEPT !.at = now', !.pc = "connect"])
    /\ UNCHANGED <<store, pend, holder, idle, inTxn, lock, committed>>

DailyConnect(r) ==
    /\ req[r].op = "daily" /\ req[r].pc = "connect"
    /\ \E c \in Conns :
         /\ Acquire(r, c)
         /\ inTxn' = [inTxn EXCEPT ![c] = TRUE]
         /\ Step(r, [req[r] EXCEPT !.conn = c, !.pc = "select"])
    /\ UNCHANGED <<store, pend, now, lock, started, committed>>

\* SELECT balance FROM user_funds ... FOR UPDATE
DailySelectUser(r) ==
    LET c == req[r].conn  u == req[r].uuid IN
    /\ req[r].op = "daily" /\ req[r].pc = "select"
    /\ IF ~Visible(c, u)
       THEN /\ Step(r, [req[r] EXCEPT !.pc = "notfound"])
            /\ UNCHANGED lock
       ELSE /\ ForUpdate => LockFree(c, u)
            /\ lock' = IF ForUpdate THEN [lock EXCEPT ![u] = c] ELSE lock
            /\ Step(r, [req[r] EXCEPT !.bal = BalanceSeen(c, u), !.pc = "reward"])
    /\ UNCHANGED <<store, pend, now, holder, idle, inTxn, started, committed>>

\* The last_claim_at a statement on connection c reads for uuid a.
ClaimSeen(c, a) == IF pDaily[c][a] # NoClaim THEN pDaily[c][a] ELSE daily[a]

\* rewardRes.rowCount > 0 && last_claim_at >= lastReset
NeverClaimed(lastClaim, lastReset) == FALSE
ClaimedAfterReset(lastClaim, lastReset) == lastClaim # NoClaim /\ lastClaim > lastReset
AlreadyClaimed(lastClaim, lastReset) == lastClaim # NoClaim /\ lastClaim >= lastReset

\* SELECT last_claim_at FROM daily_rewards ... FOR UPDATE.  The row is only
\* ever touched under the row lock of the same uuid in user_funds.
DailySelectReward(r) ==
    LET c == req[r].conn  u == req[r].uuid IN
    /\ req[r].op = "daily" /\ req[r].pc = "reward"
    /\ Step(r, [req[r] EXCEPT !.pc =
                 IF AlreadyClaimed(ClaimSeen(c, u), GetLastReset(req[r].at))
                 THEN "denied" ELSE "credit"])
    /\ UNCHANGED <<store, pend, now, holder, idle, inTxn, lock, started, committed>>

\* await client.query("ROLLBACK"); return res.status(404 | 429); finally
\* client.release()
DailyReject(r) ==
    LET c == req[r].conn IN
    /\ req[r].op = "daily" /\ req[r].pc \in {"notfound", "denied"}
    /\ TxnRollback(c)
    /\ Release(c)
    /\ Step(r, IF req[r].pc = "notfound"
                 THEN Respond(req[r], 404, "User not found.")
                 ELSE Respond([req[r] EXCEPT !.hours = RemainingHours(req[r].at),
                                             !.minutes = RemainingMinutes(req[r].at)],
                              429, "You already claimed your daily reward."))
    /\ UNCHANGED <<now, started, committed>>

\* UPDATE user_funds SET balance = balance + DAILY_REWARD_AMOUNT
DailyCredit(r) ==
    LET c == req[r].conn  u == req[r].uuid IN
    /\ req[r].op = "daily" /\ req[r].pc = "credit"
    /\ LockFree(c, u)
    /\ lock' = [lock EXCEPT ![u] = c]
    /\ SetBalance(c, u, CreditExpr(BalanceSeen(c, u), DAILY_REWARD_AMOUNT))
    /\ Step(r, [req[r] EXCEPT !.pc = "upsert"])
    /\ UNCHANGED <<store, pName, pDaily, pLog, pMob, now, holder, idle, inTxn,
                   started, committed>>

\* INSERT INTO daily_rewards ... ON CONFLICT (uuid) DO UPDATE SET last_claim_at
DailyUpsert(r) ==
    LET c == req[r].conn  u == req[r].uuid IN
    /\ req[r].op = "daily" /\ req[r].pc = "upsert"
    /\ pDaily' = [pDaily EXCEPT ![c][u] = req[r].at]
    /\ Step(r, [req[r] EXCEPT !.pc = "commit"])
    /\ UNCHANGED <<store, pName, pBal, pLog, pMob, now, holder, idle, inTxn, lock,
                   started, committed>>

\* const newBalance = currentBal + DAILY_REWARD_AMOUNT
NewBalance(currentBal) == currentBal + DAILY_REWARD_AMOUNT

\* COMMIT; newBalance; res.json; release
DailyCommit(r) ==
    LET c == req[r].conn IN
    /\ req[r].op = "daily" /\ req[r].pc = "commit"
    /\ TxnCommit(c)
    /\ Release(c)
    /\ Step(r, Observed(Respond([req[r] EXCEPT !.newBal = NewBalance(req[r].bal)],
                                200, "")))
    /\ committed' = [committed EXCEPT ![req[r].uuid] = @ + DAILY_REWARD_AMOUNT]
    /\ UNCHANGED <<now, started>>

\* ------------------------------------------------------------ lock waits
\* The row whose lock the next statement of request r has to take.
NextRow(rec) ==
    CASE rec.op = "login" /\ rec.pc = "insert" -> rec.uuid
      [] rec.op = "pay" /\ rec.pc \in {"select", "debit"} -> rec.uuid
      [] rec.op = "pay" /\ rec.pc = "credit" -> rec.to
      [] rec.op = "deposit" /\ rec.pc = "update" -> rec.uuid
      [] rec.op = "withdraw" /\ rec.pc \in {"select", "update"} -> rec.uuid
      [] rec.op = "daily" /\ rec.pc \in {"select", "credit"} -> rec.uuid
      [] OTHER -> ""

\* Request r is suspended in a statement that waits for a row lock.
Blocked(r) ==
    LET a == NextRow(req[r])  c == req[r].conn IN
    /\ a # "" /\ c # NoConn
    /\ ~LockFree(c, a)
    /\ req[r].op = "login" \/ name[a] # ""

\* The connection whose transaction connection c waits for (NoConn: none).
WaitsFor(c) ==
    IF holder[c] # 0 /\ Blocked(holder[c]) THEN lock[NextRow(req[holder[c]])] ELSE NoConn

RECURSIVE WaitChainReaches(_, _, _)
WaitChainReaches(c, target, n) ==
    /\ n > 0
    /\ WaitsFor(c) # NoConn
    /\ WaitsFor(c) = target \/ WaitChainReaches(WaitsFor(c), target, n - 1)

\* Connection c is part of a cycle of lock waits.
InWaitCycle(c) == WaitChainReaches(c, c, PoolSize)

\* PostgreSQL's deadlock detector ends the wait of one member of a cycle:
\* its statement fails with "deadlock detected".
DeadlockDetected(r) ==
    /\ Blocked(r)
    /\ InWaitCycle(req[r].conn)
    /\ StatementFails(r, req[r].conn, "deadlock detected")
    /\ UNCHANGED <<now, holder, idle, inTxn, started, committed>>

\* ------------------------------------------------ handlers of one db.query
\* GET /currency/balance, GET /currency/top and the two /currency/mob-limit
\* handlers await one db.query and answer.
QueryOps == {"balance", "top", "mark", "check"}

\* The handler up to its first await: req.user.uuid is checked, except by top.
QueryEntry(rec) ==
    IF rec.op # "top" /\ rec.uuid = ""
    THEN Respond(rec, 400, "Missing uuid")
    ELSE [rec EXCEPT !.pc = "connect"]

\* A request for one of these handlers arrives, d minutes after the clock
\* was last read.
QueryArrive(r, o, u, d) ==
    /\ SlotFree(r)
    /\ o \in QueryOps
    /\ started' = started + 1
    /\ now' = now + d
    /\ Step(r, QueryEntry(NewReq(o, u)))
    /\ UNCHANGED <<store, pend, holder, idle, inTxn, lock, committed>>

\* db.query: the pool hands out an idle client.
QueryConnect(r) ==
    /\ req[r].op \in QueryOps /\ req[r].pc = "connect"
    /\ \E c \in Conns :
         /\ Acquire(r, c)
         /\ Step(r, [req[r] EXCEPT !.conn = c, !.pc = "query"])
    /\ UNCHANGED <<store, pend, now, inTxn, lock, started, committed>>

\* ---------------------------------------------------- GET /currency/balance
\* SELECT balance FROM user_funds WHERE uuid = $1 LIMIT 1
BalanceSelect(r) ==
    LET c == req[r].conn  u == req[r].uuid IN
    /\ req[r].op = "balance" /\ req[r].pc = "query"
    /\ Release(c)
    /\ Step(r, IF ~Visible(c, u)
               THEN Respond(req[r], 404, "Player not found")
               ELSE [Respond(req[r], 200, "") EXCEPT !.bal = BalanceSeen(c, u)])
    /\ UNCHANGED <<store, pend, now, inTxn, lock, started, committed>>

\* -------------------------------------------------------- GET /currency/top
TopLimit == 10

\* The rows of user_funds in the order the table stores them.
Heap == <<"A", "B", "C", "D", "E", "F", "G", "H", "I", "J", "K">>
HeapPos(a) == CHOOSE i \in 1..Len(Heap) : Heap[i] = a

\* The rows a statement on connection c sees, and the name it reads.
RowsSeen(c) == {a \in DOMAIN name : Visible(c, a)}
NameSeen(c, a) == IF pName[c][a] # "" THEN pName[c][a] ELSE name[a]

\* ORDER BY balance DESC: row a comes before row b.  SQL leaves the order
\* of rows with equal balance open: heapFirst says whether they come in
\* table order or in its reverse.
Descending(c, heapFirst, a, b) ==
    \/ BalanceSeen(c, a) > BalanceSeen(c, b)
    \/ /\ BalanceSeen(c, a) = BalanceSeen(c, b)
       /\ IF heapFirst THEN HeapPos(a) < HeapPos(b) ELSE HeapPos(a) > HeapPos(b)

\* The rows of the result: those with fewer than LIMIT rows before them.
Limit(n) == IF n < TopLimit THEN n ELSE TopLimit
Ordered(c, heapFirst) ==
    LET S == RowsSeen(c)
        rank(a) == Cardinality({b \in S : Descending(c, heapFirst, b, a)}) + 1
    IN  [i \in 1..Limit(Cardinality(S)) |-> CHOOSE a \in S : rank(a) = i]

\* result.rows.map((r) => ({name: r.name, balance: r.balance}))
TopRows(c, heapFirst) ==
    LET rows == Ordered(c, heapFirst) IN
    [i \in 1..Len(rows) |-> [uuid |-> rows[i], name |-> NameSeen(c, rows[i]),
                              balance |-> BalanceSeen(c, rows[i])]]

\* SELECT name, balance FROM user_funds ORDER BY balance DESC LIMIT 10
TopSelect(r) ==
    LET c == req[r].conn IN
    /\ req[r].op = "top" /\ req[r].pc = "query"
    /\ Release(c)
    /\ \E heapFirst \in BOOLEAN :
         Step(r, [Respond(req[r], 200, "") EXCEPT !.top = TopRows(c, heapFirst)])
    /\ UNCHANGED <<store, pend, now, inTxn, lock, started, committed>>

\* ------------------------------------------------- /currency/mob-limit
\* CURRENT_DATE: the calendar day of the session's time zone at the start of
\* the transaction the statement runs in.  The handlers open no block: the
\* statement is its own transaction, and a block left open on the client
\* began on the day the clock shows in the behaviours that run these
\* handlers on such a client.
CurrentDate(c) == DayOf(now)

\* date_reached of the row of uuid a as a statement on connection c sees it.
DateSeen(c, a) == IF pMob[c][a] # NoDate THEN pMob[c][a] ELSE mobLimit[a]

\* No other connection holds an uncommitted write of the row of a.
MobRowFree(c, a) == \A c2 \in Conns \ {c} : pMob[c2][a] = NoDate

\* POST: INSERT INTO mob_limit_reached (uuid, date_reached) VALUES ($1,
\* CURRENT_DATE) ON CONFLICT (uuid) DO UPDATE SET date_reached = CURRENT_DATE
MarkUpsert(r) ==
    LET c == req[r].conn  u == req[r].uuid IN
    /\ req[r].op = "mark" /\ req[r].pc = "query"
    /\ MobRowFree(c, u)
    /\ IF inTxn[c]
       THEN /\ pMob' = [pMob EXCEPT ![c][u] = CurrentDate(c)]
            /\ UNCHANGED mobLimit
       ELSE /\ mobLimit' = [mobLimit EXCEPT ![u] = CurrentDate(c)]
            /\ UNCHANGED pMob
    /\ Release(c)
    /\ Step(r, Respond(req[r], 200, ""))
    /\ UNCHANGED <<name, balance, daily, log, pName, pBal, pDaily, pLog, now, inTxn,
                   lock, started, committed>>

\* The row matched by WHERE uuid = $1 AND date_reached = CURRENT_DATE.
RowOfToday(c, a) == DateSeen(c, a) = CurrentDate(c)

\* GET: SELECT 1 ... LIMIT 1, then limitReached = result.rowCount > 0.
CheckSelect(r) ==
    LET c == req[r].conn  u == req[r].uuid IN
    /\ req[r].op = "check" /\ req[r].pc = "query"
    /\ Release(c)
    /\ Step(r, [Respond(req[r], 200, "") EXCEPT !.limitReached = RowOfToday(c, u)])
    /\ UNCHANGED <<store, pend, now, inTxn, lock, started, committed>>

\* ------------------------------------------- router.use("/currency", ...)
\* Addresses as the socket or a header gives them: "::ffff:" marks the
\* IPv4-mapped form.
Mapped(a) == <<"::ffff:", a>>
Plain(a) == <<a>>

\* process.env.ALLOWED_IP_ADDRESS, ALLOWED_IP_ADDRESS_LOCAL and an address
\* that is neither.
AllowedIp == "10.0.0.1"
AllowedIpLocal == "127.0.0.1"
OutsideIp == "203.0.113.9"

\* (rawIp || "").replace("::ffff:", "").split(",")[0].trim(), rawIp being
\* the x-forwarded-for header when the request has one, else the socket's
\* remote address.  A header is the sequence of its comma-separated entries.
NormalizedIp(rec) ==
    LET rawIp == IF rec.xff # <<>> THEN rec.xff ELSE <<rec.remote>> IN
    rawIp[1][Len(rawIp[1])]

\* jwt.verify(token, JWT_SECRET): the payload of a token signed with the
\* secret and not expired; anything else throws.
JwtVerifies(token) == token = "signed"
Decoded(token) == [uuid |-> "A", name |-> "Steve"]

\* A request reaches the router.  POST /currency/login is registered before
\* the two router.use calls and runs at once; every other path under
\* /currency goes to verifyJWT first.  The body is that of the route.
RequestArrive(r, route, header, remoteAddress, forwardedFor) ==
    /\ SlotFree(r)
    /\ started' = started + 1
    /\ Step(r, LET rec == [NewReq(route, "") EXCEPT !.auth = header,
                                                     !.remote = remoteAddress,
                                                     !.xff = forwardedFor] IN
                 IF route = "login"
                 THEN LoginEntry([rec EXCEPT !.uuid = "C", !.pname = "Steve"])
                 ELSE [rec EXCEPT !.amount = Num(1), !.pc = "verifyJWT"])
    /\ UNCHANGED <<store, pend, now, holder, idle, inTxn, lock, committed>>

\* verifyJWT: the header split at the blank, its second part verified.
VerifyJWT(r) ==
    LET h == req[r].auth IN
    /\ req[r].pc = "verifyJWT"
    /\ Step(r, IF h = <<>>
                 THEN Respond(req[r], 401, "Missing Authorization header")
                 ELSE IF Len(h) < 2
                 THEN Respond(req[r], 401, "Invalid Authorization format")
                 ELSE IF ~JwtVerifies(h[2])
                 THEN Respond(req[r], 403, "Invalid or expired token")
                 ELSE [req[r] EXCEPT !.uuid = Decoded(h[2]).uuid, !.pc = "verifyIP"])
    /\ UNCHANGED <<store, pend, now, holder, idle, inTxn, lock, started, committed>>

\* verifyIP, and on next() the route handler up to its first await.
VerifyIP(r) ==
    /\ req[r].pc = "verifyIP"
    /\ Step(r, IF NormalizedIp(req[r]) \in {AllowedIp, AllowedIpLocal}
                 THEN DepositEntry(req[r])
                 ELSE Respond(req[r], 403, "Forbidden: Your IP is not allowed."))
    /\ UNCHANGED <<store, pend, now, holder, idle, inTxn, lock, started, committed>>

\* Authorization headers: none, a scheme without token, and tokens that are
\* forged, expired and good.
AuthHeaders ==
    {<<>>, <<"Bearer">>, <<"Bearer", "forged">>, <<"Bearer", "expired">>,
     <<"Bearer", "signed">>}

\* Where a request comes from: its socket address and x-forwarded-for header.
Origins ==
    {<<Mapped(AllowedIpLocal), <<>>>>, <<Plain(OutsideIp), <<>>>>,
     <<Plain(OutsideIp), <<Plain(AllowedIp)>>>>,
     <<Mapped(AllowedIpLocal), <<Plain(OutsideIp)>>>>,
     <<Plain(OutsideIp), <<Plain(OutsideIp), Plain(AllowedIp)>>>>}

GateNext ==
    \/ \E r \in Reqs, h \in AuthHeaders, o \in Origins :
          RequestArrive(r, "deposit", h, o[1], o[2])
    \/ \E r \in Reqs : RequestArrive(r, "login", <<>>, Plain(OutsideIp), <<>>)
    \/ \E r \in Reqs : VerifyJWT(r)
    \/ \E r \in Reqs : VerifyIP(r)
    \/ \E r \in Reqs : LoginConnect(r)
    \/ \E r \in Reqs : LoginInsert(r)
    \/ \E r \in Reqs : DepositConnect(r)
    \/ \E r \in Reqs : DepositUpdate(r)
    \/ \E r \in Reqs : DepositCommit(r)
    \/ \E r \in Reqs : DepositLog(r)
    \/ \E r \in Reqs : LogTimeout(r)
    \/ \E r \in Reqs : CatchRollback(r)

GateSpec == Init /\ [][GateNext]_vars

\* ------------------------------------------------------------ inputs, Next
\* Request bodies and token holders the handlers are driven with.  A and B
\* have accounts from the start, C has none until it logs in.
LoginInputs == {<<"C", "Steve">>}
PayInputs ==
    {<<<<"A", "B">>, Num(2)>>, <<<<"B", "A">>, Num(1)>>, <<<<"A", "C">>, Num(1)>>,
     <<<<"C", "A">>, Num(1)>>}
    \cup ({<<"A", "B">>} \X {Str, Num(0), Frac(1)})
DepositInputs == ({"A"} \X {Num(0), Num(1)}) \cup {<<"C", Num(1)>>}
WithdrawInputs ==
    {<<"A", Num(1), Num(1)>>, <<"A", Num(1), Str>>, <<"A", Num(0), Str>>,
     <<"C", Num(1), Num(1)>>}
\* Minutes between two readings of the clock: none, or a day.
Elapsed == {0, DayMinutes}
DailyInputs == ({"A"} \X Elapsed) \cup {<<"C", 0>>}

Next ==
    \/ \E r \in Reqs, i \in LoginInputs : LoginArrive(r, i[1], i[2])
    \/ \E r \in Reqs : LoginConnect(r)
    \/ \E r \in Reqs : LoginInsert(r)
    \/ \E r \in Reqs, i \in PayInputs : PayArrive(r, i[1][1], i[1][2], i[2])
    \/ \E r \in Reqs : PayConnect(r)
    \/ \E r \in Reqs : PaySelectSender(r)
    \/ \E r \in Reqs : PayDebit(r)
    \/ \E r \in Reqs : PayCredit(r)
    \/ \E r \in Reqs : PayCommit(r)
    \/ \E r \in Reqs : PayLog(r)
    \/ \E r \in Reqs : LogTimeout(r)
    \/ \E r \in Reqs : CatchRollback(r)
    \/ \E r \in Reqs, i \in DepositInputs : DepositArrive(r, i[1], i[2])
    \/ \E r \in Reqs : DepositConnect(r)
    \/ \E r \in Reqs : DepositUpdate(r)
    \/ \E r \in Reqs : DepositCommit(r)
    \/ \E r \in Reqs : DepositLog(r)
    \/ \E r \in Reqs, i \in WithdrawInputs : WithdrawArrive(r, i[1], i[2], i[3])
    \/ \E r \in Reqs : WithdrawConnect(r)
    \/ \E r \in Reqs : WithdrawSelect(r)
    \/ \E r \in Reqs : WithdrawUpdate(r)
    \/ \E r \in Reqs : WithdrawCommit(r)
    \/ \E r \in Reqs : WithdrawLog(r)
    \/ \E r \in Reqs, i \in DailyInputs : DailyArrive(r, i[1], i[2])
    \/ \E r \in Reqs : DailyConnect(r)
    \/ \E r \in Reqs : DailySelectUser(r)
    \/ \E r \in Reqs : DailySelectReward(r)
    \/ \E r \in Reqs : DailyReject(r)
    \/ \E r \in Reqs : DailyCredit(r)
    \/ \E r \in Reqs : DailyUpsert(r)
    \/ \E r \in Reqs : DailyCommit(r)
    \/ \E r \in Reqs : DeadlockDetected(r)

Spec == Init /\ [][Next]_vars

\* ------------------------------------------- daily claims around the resets
\* Clock readings the first request of a behaviour may find: the minute before
\* and the minute of 06:30 on the day before each of the two clock changes.
DailyStarts ==
    {ResetAt(d) - e : d \in {FallBackDay - 1, SpringForwardDay - 1}, e \in {0, 1}}

\* Minutes between two readings of the clock.
ClockSteps == {0, 1, DayMinutes - HourMinutes, DayMinutes, DayMinutes + HourMinutes}
DailyClockInputs == ({"A"} \X ClockSteps) \cup {<<"C", 0>>}

DailyInit == \E t \in DailyStarts : Start(t)

DailyNext ==
    \/ \E r \in Reqs, i \in DailyClockInputs : DailyArrive(r, i[1], i[2])
    \/ \E r \in Reqs : DailyConnect(r)
    \/ \E r \in Reqs : DailySelectUser(r)
    \/ \E r \in Reqs : DailySelectReward(r)
    \/ \E r \in Reqs : DailyReject(r)
    \/ \E r \in Reqs : DailyCredit(r)
    \/ \E r \in Reqs : DailyUpsert(r)
    \/ \E r \in Reqs : DailyCommit(r)

DailySpec == DailyInit /\ [][DailyNext]_vars

\* ------------------------------- after a deposit for a uuid without a row
\* The 404 path of deposit answers and releases its client after BEGIN, with
\* neither COMMIT nor ROLLBACK: the state it leaves behind has that client
\* idle in the pool with its transaction block open.
StrandedInit == StartState(360, [c \in Conns |-> c = 1], NoDates)

StrandedNext ==
    \/ \E r \in Reqs, i \in LoginInputs : LoginArrive(r, i[1], i[2])
    \/ \E r \in Reqs : LoginConnect(r)
    \/ \E r \in Reqs : LoginInsert(r)
    \/ \E r \in Reqs, i \in DailyInputs : DailyArrive(r, i[1], i[2])
    \/ \E r \in Reqs : DailyConnect(r)
    \/ \E r \in Reqs : DailySelectUser(r)
    \/ \E r \in Reqs : DailySelectReward(r)
    \/ \E r \in Reqs : DailyReject(r)
    \/ \E r \in Reqs : DailyCredit(r)
    \/ \E r \in Reqs : DailyUpsert(r)
    \/ \E r \in Reqs : DailyCommit(r)

StrandedSpec == StrandedInit /\ [][StrandedNext]_vars

\* ------------------------------------------------ mob limit across midnight
\* Clock readings the first request may find: the last minute of a day and
\* the first of the next; minutes between two readings of the clock.
MobStarts == {DayStart(2) - 1, DayStart(2)}
MobSteps == {0, 1, DayMinutes}

\* Rows mob_limit_reached may hold when the clock reads t: none, or A marked
\* the day before or earlier on the day.
MobMarks(t) == {[NoDates EXCEPT !["A"] = d] : d \in {NoDate, DayOf(t) - 1, DayOf(t)}}

MobInputs == ({"mark", "check"} \X {"A"} \X MobSteps) \cup {<<"check", "B", 0>>, <<"mark", "", 0>>}

MobInit ==
    \E t \in MobStarts : \E marks \in MobMarks(t) :
        StartState(t, [c \in Conns |-> FALSE], marks)

MobNext ==
    \/ \E r \in Reqs, i \in MobInputs : QueryArrive(r, i[1], i[2], i[3])
    \/ \E r \in Reqs : QueryConnect(r)
    \/ \E r \in Reqs : MarkUpsert(r)
    \/ \E r \in Reqs : CheckSelect(r)

MobSpec == MobInit /\ [][MobNext]_vars

\* ----------------------- db.query after a deposit for a uuid without a row
\* The handlers of one db.query, and login, from the state StrandedInit.
StrandedQueryInputs ==
    {<<"mark", "A">>, <<"check", "A">>, <<"balance", "A">>, <<"balance", "C">>,
     <<"top", "">>}

StrandedQueryNext ==
    \/ \E r \in Reqs, i \in LoginInputs : LoginArrive(r, i[1], i[2])
    \/ \E r \in Reqs : LoginConnect(r)
    \/ \E r \in Reqs : LoginInsert(r)
    \/ \E r \in Reqs, i \in StrandedQueryInputs : QueryArrive(r, i[1], i[2], 0)
    \/ \E r \in Reqs : QueryConnect(r)
    \/ \E r \in Reqs : MarkUpsert(r)
    \/ \E r \in Reqs : CheckSelect(r)
    \/ \E r \in Reqs : BalanceSelect(r)
    \/ \E r \in Reqs : TopSelect(r)

StrandedQuerySpec == StrandedInit /\ [][StrandedQueryNext]_vars

\* ------------------------------------------------- a connection that breaks
\* The connection of the client request r holds ends while the handler is in
\* its try block or about to run the ROLLBACK of its catch block: the
\* statement rejects, the ROLLBACK of the catch block rejects as well, so
\* the answer that follows it is never sent; the finally block releases the
\* client, which the pool closes.  The server drops the open block.
ConnectionLost(r) ==
    LET c == req[r].conn IN
    /\ req[r].op \in {"pay", "deposit", "withdraw", "daily"}
    /\ c # NoConn /\ holder[c] = r /\ req[r].pc # "log"
    /\ TxnRollback(c)
    /\ holder' = [holder EXCEPT ![c] = 0]
    /\ UNCHANGED idle
    /\ Step(r, [req[r] EXCEPT !.pc = "done", !.conn = NoConn,
                              !.err = "Connection terminated unexpectedly"])
    /\ UNCHANGED <<now, started, committed>>

LostNext ==
    \/ \E r \in Reqs, i \in DepositInputs : DepositArrive(r, i[1], i[2])
    \/ \E r \in Reqs : DepositConnect(r)
    \/ \E r \in Reqs : DepositUpdate(r)
    \/ \E r \in Reqs : DepositCommit(r)
    \/ \E r \in Reqs : DepositLog(r)
    \/ \E r \in Reqs : LogTimeout(r)
    \/ \E r \in Reqs : CatchRollback(r)
    \/ \E r \in Reqs : ConnectionLost(r)

LostSpec == Init /\ [][LostNext]_vars

\* --------------------------------------------------- pays to any recipient
\* Pays whose to_uuid is another account or the sender's own, and one for
\* more than the sender holds.
AnyRecipientInputs ==
    {<<<<"A", "A">>, Num(1)>>, <<<<"A", "B">>, Num(1)>>, <<<<"B", "A">>, Num(1)>>,
     <<<<"B", "B">>, Num(2)>>}

PayNext ==
    \/ \E r \in Reqs, i \in AnyRecipientInputs : PayArrive(r, i[1][1], i[1][2], i[2])
    \/ \E r \in Reqs : PayConnect(r)
    \/ \E r \in Reqs : PaySelectSender(r)
    \/ \E r \in Reqs : PayDebit(r)
    \/ \E r \in Reqs : PayCredit(r)
    \/ \E r \in Reqs : PayCommit(r)
    \/ \E r \in Reqs : PayLog(r)
    \/ \E r \in Reqs : LogTimeout(r)
    \/ \E r \in Reqs : CatchRollback(r)
    \/ \E r \in Reqs : DeadlockDetected(r)

PaySpec == Init /\ [][PayNext]_vars

\* ------------------------------------------- withdraws of any denomination
\* Withdraws whose body carries a denomination that is negative, zero,
\* positive or absent, and one for more than the account holds.
AnyDenominationInputs ==
    {<<"A", Num(1), Num(-1)>>, <<"A", Num(1), Num(0)>>, <<"A", Num(1), Num(1)>>,
     <<"A", Num(1), Str>>, <<"B", Num(2), Num(-1)>>}

WithdrawNext ==
    \/ \E r \in Reqs, i \in AnyDenominationInputs : WithdrawArrive(r, i[1], i[2], i[3])
    \/ \E r \in Reqs : WithdrawConnect(r)
    \/ \E r \in Reqs : WithdrawSelect(r)
    \/ \E r \in Reqs : WithdrawUpdate(r)
    \/ \E r \in Reqs : WithdrawCommit(r)
    \/ \E r \in Reqs : WithdrawLog(r)
    \/ \E r \in Reqs : LogTimeout(r)
    \/ \E r \in Reqs : CatchRollback(r)

WithdrawSpec == Init /\ [][WithdrawNext]_vars

\* --------------------------------------- deposits and mob-limit marks together
\* Deposits served next to the mob-limit routes, from the state StrandedInit.
MarkInputs == {<<"mark", "A">>, <<"check", "A">>}

MarkDepositNext ==
    \/ \E r \in Reqs, i \in DepositInputs : DepositArrive(r, i[1], i[2])
    \/ \E r \in Reqs : DepositConnect(r)
    \/ \E r \in Reqs : DepositUpdate(r)
    \/ \E r \in Reqs : DepositCommit(r)
    \/ \E r \in Reqs : DepositLog(r)
    \/ \E r \in Reqs : LogTimeout(r)
    \/ \E r \in Reqs : CatchRollback(r)
    \/ \E r \in Reqs, i \in MarkInputs : QueryArrive(r, i[1], i[2], 0)
    \/ \E r \in Reqs : QueryConnect(r)
    \/ \E r \in Reqs : MarkUpsert(r)
    \/ \E r \in Reqs : CheckSelect(r)

MarkDepositSpec == StrandedInit /\ [][MarkDepositNext]_vars

\* =========================================================== MongoDB variant
\* The routes of the MongoDB template: the collections user_funds (name,
\* balance), daily_rewards (daily, one document per discord_id) and
\* currency_transactions (log).  A driver call is one step; a single-document
\* operation is atomic.  The pool of the PostgreSQL variant is not used.
pool == <<holder, idle, inTxn, lock>>

\* The collection users, which these routes only read: the discord_id each
\* Minecraft uuid is linked to, "" when it has no document or no link.
Users == [a \in Accts |-> CASE a = "A" -> "d1" [] a = "B" -> "d1" [] OTHER -> ""]
DiscordIds == {Users[a] : a \in Accts} \ {""}

\* POST /currency/withdraw: validation, denom and amount.
MongoWithdrawArrive(r, u, cnt, d) ==
    /\ SlotFree(r)
    /\ started' = started + 1
    /\ Step(r, LET rec == [NewReq("withdraw", u) EXCEPT !.count = cnt] IN
                 IF u = "" \/ ~IsNumber(cnt) \/ LeqZero(cnt)
                 THEN Respond(rec, 400, "Invalid count or uuid")
                 ELSE [rec EXCEPT !.denom = Denom(d).val,
                                  !.amount = Mul(cnt, Denom(d)),
                                  !.pc = "find"])
    /\ UNCHANGED <<store, pend, pool, now, committed>>

\* const user = await userFunds.findOne({uuid}), then the two checks on the
\* document as it was read.
MongoWithdrawFind(r) ==
    LET u == req[r].uuid IN
    /\ req[r].op = "withdraw" /\ req[r].pc = "find"
    /\ Step(r, IF name[u] = ""
               THEN Respond(req[r], 404, "User not found")
               ELSE IF balance[u] < req[r].amount.val
               THEN Respond(req[r], 400, "Insufficient funds")
               ELSE [req[r] EXCEPT !.bal = balance[u], !.pc = "update"])
    /\ UNCHANGED <<store, pend, pool, now, started, committed>>

\* await userFunds.findOneAndUpdate({uuid}, {$inc: {balance: -amount}},
\* {returnDocument: "after"}): the filter names the uuid only.
MongoWithdrawUpdate(r) ==
    LET u == req[r].uuid IN
    /\ req[r].op = "withdraw" /\ req[r].pc = "update"
    /\ balance' = [balance EXCEPT ![u] = @ - req[r].amount.val]
    /\ Step(r, [req[r] EXCEPT !.newBal = balance'[u], !.pc = "log"])
    /\ UNCHANGED <<name, daily, log, mobLimit, pend, pool, now, started, committed>>

\* await logTransactions(db, {...}), then res.json.
MongoWithdrawLog(r) ==
    /\ req[r].op = "withdraw" /\ req[r].pc = "log"
    /\ log' = Append(log, LogRecord(req[r], "withdraw", req[r].amount.val, "", "",
                                    req[r].denom, req[r].count.val, req[r].newBal))
    /\ Step(r, Respond(req[r], 200, ""))
    /\ UNCHANGED <<name, balance, daily, mobLimit, pend, pool, now, started, committed>>

\* POST /currency/daily: DateTime.now() and getLastReset(now).
MongoDailyArrive(r, u, d) ==
    /\ SlotFree(r)
    /\ started' = started + 1
    /\ now' = now + d
    /\ Step(r, IF u = ""
                 THEN Respond(NewReq("daily", u), 400, "Missing uuid")
                 ELSE [NewReq("daily", u) EXCEPT !.at = now', !.pc = "user"])
    /\ UNCHANGED <<store, pend, pool, committed>>

\* const user = await users.findOne({uuid}); discordId = user.discord_id
MongoDailyFindUser(r) ==
    LET u == req[r].uuid IN
    /\ req[r].op = "daily" /\ req[r].pc = "user"
    /\ Step(r, IF Users[u] = ""
               THEN Respond(req[r], 404, "Your Minecraft account is not linked to Discord.")
               ELSE [req[r] EXCEPT !.discordId = Users[u], !.pc = "fund"])
    /\ UNCHANGED <<store, pend, pool, now, started, committed>>

\* const fund = await userFunds.findOne({uuid}); currentBal
MongoDailyFindFund(r) ==
    LET u == req[r].uuid IN
    /\ req[r].op = "daily" /\ req[r].pc = "fund"
    /\ Step(r, IF name[u] = ""
               THEN Respond(req[r], 404, "User not found.")
               ELSE [req[r] EXCEPT !.bal = balance[u], !.pc = "reward"])
    /\ UNCHANGED <<store, pend, pool, now, started, committed>>

\* const reward = await dailyRewards.findOne({discord_id: discordId}), then
\* alreadyClaimed and the 429 answer.
MongoDailyFindReward(r) ==
    /\ req[r].op = "daily" /\ req[r].pc = "reward"
    /\ Step(r, IF AlreadyClaimed(daily[req[r].discordId], GetLastReset(req[r].at))
               THEN Respond([req[r] EXCEPT !.hours = RemainingHours(req[r].at),
                                           !.minutes = RemainingMinutes(req[r].at)],
                            429, "You already claimed your daily reward.")
               ELSE [req[r] EXCEPT !.pc = "transaction"])
    /\ UNCHANGED <<store, pend, pool, now, started, committed>>

\* session.withTransaction: the $inc of the balance and the upsert of
\* last_claim_at by discord_id commit as one; a transaction that loses a
\* write conflict is run again by withTransaction and commits then.
MongoDailyTransaction(r) ==
    /\ req[r].op = "daily" /\ req[r].pc = "transaction"
    /\ balance' = [balance EXCEPT ![req[r].uuid] = @ + DAILY_REWARD_AMOUNT]
    /\ daily' = [daily EXCEPT ![req[r].discordId] = req[r].at]
    /\ Step(r, [req[r] EXCEPT !.pc = "answer"])
    /\ UNCHANGED <<name, log, mobLimit, pend, pool, now, started, committed>>

\* await session.endSession(); newBalance = currentBal + DAILY_REWARD_AMOUNT
MongoDailyAnswer(r) ==
    /\ req[r].op = "daily" /\ req[r].pc = "answer"
    /\ Step(r, [Respond(req[r], 200, "") EXCEPT !.newBal = NewBalance(req[r].bal)])
    /\ UNCHANGED <<store, pend, pool, now, started, committed>>

\* The three accounts have logged in; no daily reward has been claimed.
MongoInit ==
    /\ name = [a \in Accts |-> CASE a = "A" -> "Steve" [] a = "B" -> "Alex" [] OTHER -> "Carl"]
    /\ balance = InitBalance
    /\ daily = [d \in DiscordIds |-> NoClaim]
    /\ log = <<>>
    /\ now = 360
    /\ holder = [c \in Conns |-> 0]
    /\ idle = <<>>
    /\ inTxn = [c \in Conns |-> FALSE]
    /\ pName = [c \in Conns |-> NoNames]
    /\ pBal = [c \in Conns |-> NoDelta]
    /\ pDaily = [c \in Conns |-> NoClaims]
    /\ pLog = [c \in Conns |-> <<>>]
    /\ lock = [a \in Accts |-> NoConn]
    /\ req = [r \in Reqs |-> IdleReq]
    /\ last = IdleReq
    /\ started = 0
    /\ committed = NoDelta
    /\ mobLimit = NoDates
    /\ pMob = [c \in Conns |-> NoDates]

MongoWithdrawInputs ==
    {<<"A", Num(1), Num(1)>>, <<"A", Num(2), Num(1)>>, <<"A", Num(1), Str>>,
     <<"A", Num(0), Str>>}
MongoDailyInputs == ({"A", "B"} \X {0, 30, DayMinutes}) \cup {<<"C", 0>>}

MongoNext ==
    \/ \E r \in Reqs, i \in MongoWithdrawInputs : MongoWithdrawArrive(r, i[1], i[2], i[3])
    \/ \E r \in Reqs : MongoWithdrawFind(r)
    \/ \E r \in Reqs : MongoWithdrawUpdate(r)
    \/ \E r \in Reqs : MongoWithdrawLog(r)
    \/ \E r \in Reqs, i \in MongoDailyInputs : MongoDailyArrive(r, i[1], i[2])
    \/ \E r \in Reqs : MongoDailyFindUser(r)
    \/ \E r \in Reqs : MongoDailyFindFund(r)
    \/ \E r \in Reqs : MongoDailyFindReward(r)
    \/ \E r \in Reqs : MongoDailyTransaction(r)
    \/ \E r \in Reqs : MongoDailyAnswer(r)

MongoSpec == MongoInit /\ [][MongoNext]_vars

\* ------------------------------------------- POST /currency/pay (MongoDB)
\* The write lock a transaction takes on a document is kept in lock, under
\* the slot of the request whose session runs the transaction.

\* Validation, then db.client.startSession() and session.withTransaction.
MongoPayArrive(r, u, t, amt) ==
    /\ SlotFree(r)
    /\ started' = started + 1
    /\ Step(r, LET rec == [NewReq("pay", u) EXCEPT !.to = t, !.amount = amt] IN
                 IF u = "" \/ t = "" \/ ~IsNumber(amt)
                 THEN Respond(rec, 400, "Invalid input")
                 ELSE IF LeqZero(amt)
                 THEN Respond(rec, 400, "Amount must be positive")
                 ELSE [rec EXCEPT !.pc = "sender"])
    /\ UNCHANGED <<store, pend, pool, now, committed>>

\* The callback throws, or res.json throws because the answer has been sent:
\* withTransaction aborts and rethrows, and the catch block answers 400
\* unless an answer has been sent, in which case res.status(400).json throws
\* in turn and the handler ends with the answer it gave.
MongoPayCatch(rec, e) ==
    IF rec.status # 0
    THEN [rec EXCEPT !.pc = "done", !.err = e, !.conn = NoConn]
    ELSE Respond(rec, 400, e)

\* withTransaction runs the callback again after a TransientTransactionError.
MongoPayRetry(rec) == [rec EXCEPT !.pc = "sender", !.tries = @ + 1]

\* sender = await userFunds.findOne({uuid: from_uuid}, {session}) and the
\* two checks; the stored balances are integers, which
\* Math.floor(parseFloat(balance)) leaves as they are.
MongoPayFindSender(r) ==
    LET u == req[r].uuid  b == balance[u] IN
    /\ req[r].op = "pay" /\ req[r].pc = "sender"
    /\ Step(r, IF name[u] = ""
               THEN MongoPayCatch(req[r], "Sender not found")
               ELSE IF InsufficientFunds(b, req[r].amount)
               THEN MongoPayCatch([req[r] EXCEPT !.bal = b], "Insufficient funds")
               ELSE [req[r] EXCEPT !.bal = b, !.newBal = b - req[r].amount.val,
                                   !.pc = "recipient"])
    /\ UNCHANGED <<store, pend, pool, now, started, committed>>

\* recipient = await userFunds.findOne({uuid: to_uuid}, {session})
MongoPayFindRecipient(r) ==
    /\ req[r].op = "pay" /\ req[r].pc = "recipient"
    /\ Step(r, IF name[req[r].to] = ""
               THEN MongoPayCatch(req[r], "Recipient not found")
               ELSE [req[r] EXCEPT !.pc = "debit"])
    /\ UNCHANGED <<store, pend, pool, now, started, committed>>

\* updateOne in the transaction of r meets a document another transaction
\* has written and not yet committed: WriteConflict.
WriteConflict(r, a) == lock[a] # NoConn /\ lock[a] # r

\* await userFunds.updateOne({uuid}, {$inc: {balance: ...}}, {session}) for
\* the document of a, then the callback goes on at pc next.
MongoPayUpdateOne(r, a, next) ==
    IF WriteConflict(r, a) \/ (a = req[r].uuid /\ balance[a] # req[r].bal)
    THEN /\ req[r].tries < MaxRetries
         /\ ReleaseLocks(r)
         /\ Step(r, MongoPayRetry(req[r]))
    ELSE /\ lock' = [lock EXCEPT ![a] = r]
         /\ Step(r, [req[r] EXCEPT !.pc = next])

MongoPayDebit(r) ==
    /\ req[r].op = "pay" /\ req[r].pc = "debit"
    /\ MongoPayUpdateOne(r, req[r].uuid, "credit")
    /\ UNCHANGED <<store, pend, holder, idle, inTxn, now, started, committed>>

MongoPayCredit(r) ==
    /\ req[r].op = "pay" /\ req[r].pc = "credit"
    /\ MongoPayUpdateOne(r, req[r].to, "log")
    /\ UNCHANGED <<store, pend, holder, idle, inTxn, now, started, committed>>

\* await logTransactions(db, {...}) in the callback, without the session.
MongoPayLog(r) ==
    /\ req[r].op = "pay" /\ req[r].pc = "log"
    /\ log' = Append(log, LogRecord(req[r], "pay", req[r].amount.val, req[r].uuid,
                                    req[r].to, 0, 0, req[r].newBal))
    /\ Step(r, [req[r] EXCEPT !.pc = "respond"])
    /\ UNCHANGED <<name, balance, daily, mobLimit, pend, pool, now, started, committed>>

\* res.json({success: true, new_sender_balance}) as the last statement of
\* the callback; it throws when the callback runs again after an answer.
MongoPayRespond(r) ==
    /\ req[r].op = "pay" /\ req[r].pc = "respond"
    /\ IF req[r].status # 0
       THEN /\ ReleaseLocks(r)
            /\ Step(r, MongoPayCatch(req[r], "Cannot set headers after they are sent"))
       ELSE /\ UNCHANGED lock
            /\ Step(r, [req[r] EXCEPT !.status = 200, !.pc = "commit"])
    /\ UNCHANGED <<store, pend, holder, idle, inTxn, now, started, committed>>

\* What the commitTransaction of withTransaction may do.
CommitOutcomes == {"committed", "transient", "failed"}

\* withTransaction commits once the callback has returned: the two $inc are
\* stored together; or the commit fails with a TransientTransactionError
\* and the callback runs again; or it fails for good and withTransaction
\* rejects.
MongoPayCommit(r, outcome) ==
    LET u == req[r].uuid  t == req[r].to  v == req[r].amount.val IN
    /\ req[r].op = "pay" /\ req[r].pc = "commit"
    /\ ReleaseLocks(r)
    /\ UNCHANGED <<name, daily, log, mobLimit, pend, holder, idle, inTxn, now, started>>
    /\ CASE outcome = "committed" ->
              /\ balance' = [a \in Accts |-> balance[a] + TransferDelta(u, t, v)[a]]
              /\ committed' = [a \in Accts |-> committed[a] + TransferDelta(u, t, v)[a]]
              /\ Step(r, Observed([req[r] EXCEPT !.pc = "done", !.conn = NoConn]))
         [] outcome = "transient" ->
              /\ req[r].tries < MaxRetries
              /\ Step(r, MongoPayRetry(req[r]))
              /\ UNCHANGED <<balance, committed>>
         [] OTHER ->
              /\ Step(r, MongoPayCatch(req[r], "commit failed"))
              /\ UNCHANGED <<balance, committed>>

MongoPayInputs ==
    {<<<<"A", "B">>, Num(1)>>, <<<<"B", "A">>, Num(1)>>, <<<<"A", "C">>, Num(3)>>,
     <<<<"A", "B">>, Num(0)>>}

MongoPayNext ==
    \/ \E r \in Reqs, i \in MongoPayInputs : MongoPayArrive(r, i[1][1], i[1][2], i[2])
    \/ \E r \in Reqs : MongoPayFindSender(r)
    \/ \E r \in Reqs : MongoPayFindRecipient(r)
    \/ \E r \in Reqs : MongoPayDebit(r)
    \/ \E r \in Reqs : MongoPayCredit(r)
    \/ \E r \in Reqs : MongoPayLog(r)
    \/ \E r \in Reqs : MongoPayRespond(r)
    \/ \E r \in Reqs, o \in CommitOutcomes : MongoPayCommit(r, o)

MongoPaySpec == MongoInit /\ [][MongoPayNext]_vars

\* ============================================================ SQLite variant
\* The routes of the SQLite template.  better-sqlite3 is synchronous: a
\* handler runs from its first line to its answer without another handler
\* in between, and a statement run outside db.transaction commits by itself.

\* POST /currency/login: validation, jwt.sign, res.json({token}).
SqliteLogin(r, u, nm) ==
    /\ SlotFree(r)
    /\ started' = started + 1
    /\ Step(r, LET rec == [NewReq("login", u) EXCEPT !.pname = nm] IN
                 IF u = "" \/ nm = ""
                 THEN Respond(rec, 400, "Missing uuid or name")
                 ELSE Respond(rec, 200, ""))
    /\ UNCHANGED <<store, pend, pool, now, committed>>

\* GET /currency/balance: SELECT balance FROM user_funds WHERE uuid = ?
SqliteBalance(r, u) ==
    /\ SlotFree(r)
    /\ started' = started + 1
    /\ Step(r, LET rec == NewReq("balance", u) IN
                 IF u = "" THEN Respond(rec, 400, "Missing uuid")
                 ELSE IF name[u] = "" THEN Respond(rec, 404, "Player not found")
                 ELSE [Respond(rec, 200, "") EXCEPT !.bal = balance[u]])
    /\ UNCHANGED <<store, pend, pool, now, committed>>

\* POST /currency/daily, d minutes after the clock was last read.  The two
\* SELECTs and alreadyClaimed, then updateBalStmt.run and
\* upsertRewardStmt.run, each committing by itself; upsertFails: the second
\* throws (SQLITE_BUSY, SQLITE_FULL, an I/O error), and the catch block
\* answers 500.
SqliteDaily(r, u, d, upsertFails) ==
    LET rec == [NewReq("daily", u) EXCEPT !.at = now + d] IN
    /\ SlotFree(r)
    /\ started' = started + 1
    /\ now' = now + d
    /\ IF u = ""
       THEN /\ Step(r, Respond(rec, 400, "Missing uuid"))
            /\ UNCHANGED <<balance, daily>>
       ELSE IF name[u] = ""
       THEN /\ Step(r, Respond(rec, 404, "User not found."))
            /\ UNCHANGED <<balance, daily>>
       ELSE IF AlreadyClaimed(daily[u], GetLastReset(rec.at))
       THEN /\ Step(r, Respond([rec EXCEPT !.hours = RemainingHours(rec.at),
                                           !.minutes = RemainingMinutes(rec.at)],
                               429, "You already claimed your daily reward."))
            /\ UNCHANGED <<balance, daily>>
       ELSE /\ balance' = [balance EXCEPT ![u] = @ + DAILY_REWARD_AMOUNT]
            /\ IF upsertFails
               THEN /\ UNCHANGED daily
                    /\ Step(r, Respond([rec EXCEPT !.bal = balance[u]], 500,
                                       "Something went wrong while claiming your daily reward."))
               ELSE /\ daily' = [daily EXCEPT ![u] = rec.at]
                    /\ Step(r, [Respond([rec EXCEPT !.bal = balance[u]], 200, "")
                                  EXCEPT !.newBal = NewBalance(balance[u])])
    /\ UNCHANGED <<name, log, mobLimit, pend, pool, committed>>

SqliteLoginInputs == {<<"C", "Steve">>, <<"A", "Steve">>, <<"", "Steve">>}
SqliteDailyInputs == ({"A", "B"} \X {0, 30, DayMinutes}) \cup {<<"C", 0>>, <<"", 0>>}

SqliteNext ==
    \/ \E r \in Reqs, i \in SqliteLoginInputs : SqliteLogin(r, i[1], i[2])
    \/ \E r \in Reqs, u \in Accts : SqliteBalance(r, u)
    \/ \E r \in Reqs, i \in SqliteDailyInputs, upsertFails \in BOOLEAN :
          SqliteDaily(r, i[1], i[2], upsertFails)

SqliteSpec == Init /\ [][SqliteNext]_vars

\* ================================================================ claims
Answered(o) == last.op = o /\ last.pc = "done"
PositiveInteger(x) == x.typ = "number" /\ x.cls = "int" /\ x.val > 0

\* A step of the handler in slot r.
StepOf(r) == req'[r] # req[r]

\* C1: every step of a pay handler, whether the pay succeeds or fails, leaves
\* the sum of all account balances as it was: a pay only moves currency.
C1_Conservation ==
    [][\A r \in Reqs : (req[r].op = "pay" /\ StepOf(r)) => SumBalances' = SumBalances]_vars

\* A pay has been answered with success and has moved currency.
C1_Witness == Answered("pay") /\ last.status = 200 /\ balance # InitBalance

\* C2: no stored balance is ever negative.
C2_NoNegativeBalance == \A a \in Accts : balance[a] >= 0

\* A debit has been committed that took an account to exactly zero.
C2_Witness ==
    /\ last.op \in {"pay", "withdraw"} /\ last.status = 200
    /\ balance[last.uuid] = 0 /\ last.dBal[last.uuid] < 0

\* r1 and r2 are pays in opposite directions, both past their funds check.
OppositePays(r1, r2) ==
    /\ r1 # r2
    /\ req[r1].op = "pay" /\ req[r2].op = "pay"
    /\ req[r1].uuid = req[r2].to /\ req[r1].to = req[r2].uuid
    /\ req[r1].uuid # req[r1].to
    /\ req[r1].newBal # NotRead /\ req[r2].newBal # NotRead

\* C3: of two concurrent pays in opposite directions that both have
\* sufficient funds, neither is aborted.
C3_BothOppositePaysSucceed ==
    \A r1, r2 \in Reqs :
        OppositePays(r1, r2) => req[r1].err # "deadlock detected"

\* C4: an answered pay has either debited the sender, credited the recipient
\* and appended one log record, or done none of the three.
C4_PayAllOrNothing ==
    Answered("pay") =>
        \/ /\ last.dBal = TransferDelta(last.uuid, last.to, last.amount.val)
           /\ last.nLog = 1
        \/ /\ last.dBal = NoDelta
           /\ last.nLog = 0

\* C5: a pay, deposit, withdraw or daily claim answered with an error has
\* changed no balance, no daily_rewards row and no log record.
C5_FailureChangesNothing ==
    (last.op \in {"pay", "deposit", "withdraw", "daily"} /\ last.pc = "done"
       /\ last.status # 200) =>
        last.dBal = NoDelta /\ last.nLog = 0 /\ ~last.dDaily

\* C6: a pay whose sender balance, read under the row lock, is less than the
\* amount is answered 'Insufficient funds' and changes no balance and no log.
C6_InsufficientFunds ==
    (Answered("pay") /\ last.bal # NotRead /\ LessThan(last.bal, last.amount)) =>
        /\ last.status = 400 /\ last.err = "Insufficient funds"
        /\ last.dBal = NoDelta /\ last.nLog = 0

\* A pay has been refused for insufficient funds.
C6_Witness ==
    /\ Answered("pay") /\ last.err = "Insufficient funds"
    /\ last.bal # NotRead /\ last.bal < last.amount.val

\* C7: a pay that finds its sender with sufficient funds but no recipient is
\* answered 'Recipient not found'; its debit is pending inside the
\* transaction when the error is raised, and is rolled back: no balance and
\* no log record changes.
C7_RecipientNotFound ==
    /\ \A r \in Reqs :
         (req[r].op = "pay" /\ req[r].pc = "rollback"
            /\ req[r].err = "Recipient not found") =>
             pBal[req[r].conn][req[r].uuid] = -req[r].amount.val
    /\ (Answered("pay") /\ last.err = "Recipient not found") =>
         /\ last.status = 400
         /\ last.dBal = NoDelta /\ last.nLog = 0
    /\ (Answered("pay") /\ name[last.to] = "" /\ last.newBal # NotRead
          /\ PositiveInteger(last.amount) /\ last.err # "deadlock detected") =>
         last.err = "Recipient not found"

\* A pay to an unknown recipient has been answered and the sender still has
\* the balance the handler read.
C7_Witness ==
    /\ Answered("pay") /\ last.err = "Recipient not found"
    /\ balance[last.uuid] = last.bal

\* C8: only finite positive integer amounts get past pay's validation, and
\* every other amount is answered with one of its two validation errors.
C8_PayAmountValidated ==
    /\ \A r \in Reqs :
         (req[r].op = "pay" /\ req[r].pc \notin {"idle", "connect"}) =>
             PositiveInteger(req[r].amount)
    /\ (Answered("pay") /\ ~PositiveInteger(last.amount)) =>
         last.err \in {"Invalid input", "Amount must be positive"}

\* Request r is between its balance check and the end of its transaction.
InDebitWindow(r) ==
    \/ req[r].op = "pay" /\ req[r].pc \in {"debit", "credit", "commit"}
    \/ req[r].op = "withdraw" /\ req[r].pc \in {"update", "commit"}

\* C9: every stored balance is the initial balance plus the deltas asked for
\* by the operations that committed, and two debits of one account are never
\* both between their balance check and their commit.
C9_NoLostUpdate ==
    /\ \A a \in Accts : balance[a] = InitBalance[a] + committed[a]
    /\ \A r1, r2 \in Reqs :
         (r1 # r2 /\ InDebitWindow(r1) /\ InDebitWindow(r2)) =>
             req[r1].uuid # req[r2].uuid

\* A debit waits for the row lock another debit of the same account holds.
C9_Witness ==
    \E r1, r2 \in Reqs :
        /\ r1 # r2 /\ InDebitWindow(r1)
        /\ req[r2].op \in {"pay", "withdraw"} /\ req[r2].pc = "select"
        /\ req[r2].uuid = req[r1].uuid /\ Blocked(r2)

\* C10: no two transactions ever wait for each other's row locks.
C10_NoCircularWait == \A c \in Conns : ~InWaitCycle(c)

\* Request r takes a step that changes a stored balance.
CreditStep(r) == req[r].op = "daily" /\ StepOf(r) /\ balance' # balance

\* A daily claim is answered in this step.
DailyAnswered == last' # last /\ last'.op = "daily"

\* C11: a daily claim credits only when no claim of its account is recorded
\* in the reset period of its 'now', and records its 'now' when it does, so
\* one period sees one credit; a claim answered 'already claimed' found such
\* a record and changed neither the balance nor last_claim_at.
C11_DailySingleFire ==
    [][/\ \A r \in Reqs : CreditStep(r) =>
            /\ daily[req[r].uuid] = NoClaim
                 \/ daily[req[r].uuid] < GetLastReset(req[r].at)
            /\ daily'[req[r].uuid] = req[r].at
       /\ (DailyAnswered /\ last'.status = 429) =>
            /\ daily'[last'.uuid] # NoClaim
            /\ daily'[last'.uuid] >= GetLastReset(last'.at)
            /\ last'.dBal = NoDelta /\ ~last'.dDaily
            /\ balance' = balance /\ daily' = daily
       /\ DailyAnswered => last'.status \in {200, 404, 429}]_vars

\* A second claim of the period has been refused after the first was credited.
C11_Witness ==
    /\ Answered("daily") /\ last.status = 429
    /\ committed[last.uuid] = DAILY_REWARD_AMOUNT
    /\ balance[last.uuid] = InitBalance[last.uuid] + DAILY_REWARD_AMOUNT

\* C12: a daily claim answered with success has appended one log record
\* with action 'daily' for its account.
C12_DailyClaimLogged ==
    (Answered("daily") /\ last.status = 200) =>
        /\ last.nLog = 1
        /\ \E i \in 1..Len(log) : log[i].action = "daily" /\ log[i].uuid = last.uuid

\* C13: the commit of a daily claim adds exactly the reward to the claimant's
\* balance and sets its last_claim_at to the request's 'now', both in the same
\* step, changes no other account and no other tracker row, and answers with
\* new_balance equal to the balance stored by that commit; no other step of a
\* claim changes either.  Violated from the state a 404 deposit leaves: the
\* claim's COMMIT also stores the account a login wrote on the same client.
C13_DailyEffect ==
    [][\A r \in Reqs : (req[r].op = "daily" /\ StepOf(r)) =>
          IF req[r].pc = "commit"
          THEN /\ balance' = [balance EXCEPT ![req[r].uuid] = @ + DAILY_REWARD_AMOUNT]
               /\ daily' = [daily EXCEPT ![req[r].uuid] = req[r].at]
               /\ \A a \in Accts \ {req[r].uuid} : name'[a] = name[a]
               /\ last'.status = 200
               /\ last'.newBal = balance'[req[r].uuid]
          ELSE balance' = balance /\ daily' = daily]_vars

\* The instants read from the clock by the requests in flight, and the clock.
ClockReadings == {now} \cup {req[r].at : r \in {q \in Reqs : req[q].op = "daily"}}

\* lr is the latest 06:30 of the reference timezone at or before t.
LatestResetBefore(lr, t) ==
    /\ \E k \in -1..DayOf(t) : lr = ResetAt(k)
    /\ lr <= t
    /\ \A k \in -1..(DayOf(t) + 1) : ResetAt(k) <= t => ResetAt(k) <= lr

\* C14, as stated: getLastReset(now) is the latest 06:30 at or before now,
\* and now is less than 24 hours after it.
C14_ResetWithin24h ==
    \A t \in ClockReadings :
        /\ LatestResetBefore(GetLastReset(t), t)
        /\ t < GetLastReset(t) + DayMinutes

\* C14, amended: getLastReset(now) is the latest 06:30 at or before now, and
\* now is before the 06:30 of the following day, which comes 23, 24 or 25
\* hours after it depending on the clock changes of the timezone.
C14_ResetWithinOneDay ==
    \A t \in ClockReadings :
        /\ LatestResetBefore(GetLastReset(t), t)
        /\ t < NextReset(GetLastReset(t))
        /\ NextReset(GetLastReset(t)) - GetLastReset(t) \in
              {DayMinutes - HourMinutes, DayMinutes, DayMinutes + HourMinutes}

\* A claim is being decided whose 'now' lies 24 hours or more after its last
\* reset, in the 25th hour of the period in which the clocks go back.
C14_Witness ==
    \E r \in Reqs :
        /\ req[r].op = "daily" /\ req[r].pc \in {"credit", "denied"}
        /\ req[r].at >= GetLastReset(req[r].at) + DayMinutes

\* Request r takes the step that decides whether its claim is allowed.
DecisionStep(r) == req[r].op = "daily" /\ req[r].pc = "reward" /\ StepOf(r)

\* The claim of r is denied exactly when a claim at or after its last reset
\* is recorded; a claim recorded before 06:30 of the same calendar day does
\* not stand in the way of one at or after 06:30.
DeniedIffClaimedSinceReset(r) ==
    LET c == daily[req[r].uuid]  t == req[r].at IN
    /\ req'[r].pc \in {"credit", "denied"}
    /\ req'[r].pc = "denied" <=> (c # NoClaim /\ c >= GetLastReset(t))
    /\ (c # NoClaim /\ DayOf(c) = DayOf(t) /\ c < ResetAt(DayOf(t))
          /\ ResetAt(DayOf(t)) <= t) => req'[r].pc = "credit"

\* C15, as stated: denied iff a claim since the last reset is recorded, and
\* after a claim the next one is allowed once 'now' is 24 hours past the last
\* reset of that claim.
C15_AllowedAfter24h ==
    [][\A r \in Reqs : DecisionStep(r) =>
          /\ DeniedIffClaimedSinceReset(r)
          /\ (daily[req[r].uuid] # NoClaim
                /\ req[r].at >= GetLastReset(daily[req[r].uuid]) + DayMinutes) =>
                 req'[r].pc = "credit"]_vars

\* C15, amended: denied iff a claim since the last reset is recorded, and
\* after a claim the next one is allowed exactly from the next 06:30 on, one
\* calendar day (23, 24 or 25 hours) after the last reset of that claim.
C15_AllowedFromNextReset ==
    [][\A r \in Reqs : DecisionStep(r) =>
          /\ DeniedIffClaimedSinceReset(r)
          /\ (daily[req[r].uuid] # NoClaim /\ daily[req[r].uuid] <= req[r].at) =>
                (req'[r].pc = "credit"
                   <=> req[r].at >= NextReset(GetLastReset(daily[req[r].uuid])))]_vars

\* A claim made at or after 06:30 is allowed although a claim of the same
\* calendar day, made before 06:30, is recorded.
C15_Witness ==
    \E r \in Reqs :
        /\ req[r].op = "daily" /\ req[r].pc = "credit"
        /\ daily[req[r].uuid] # NoClaim
        /\ DayOf(daily[req[r].uuid]) = DayOf(req[r].at)

\* The daily claim answered last was denied and changed nothing.
DeniedUnchanged ==
    /\ Answered("daily") /\ last.status = 429
    /\ last.dBal = NoDelta /\ ~last.dDaily /\ last.nLog = 0

\* The time the last answer reports, in minutes.
ReportedRemaining == last.hours * HourMinutes + last.minutes

\* C16, as stated: a denied claim reports the time until the next reset as
\* whole hours and minutes, more than zero and at most 24 hours, and changes
\* no balance, no last_claim_at and no log record.
C16_RemainingAtMost24h ==
    (Answered("daily") /\ last.status = 429) =>
        /\ DeniedUnchanged
        /\ ReportedRemaining = ResetAt(DayOf(GetLastReset(last.at)) + 1) - last.at
        /\ last.minutes \in 0..(HourMinutes - 1)
        /\ ReportedRemaining > 0 /\ ReportedRemaining <= DayMinutes

\* C16, amended: the same, the reported time being at most the length of the
\* reset period, which is 25 hours when the clocks go back in it.
C16_RemainingAtMostOneDay ==
    (Answered("daily") /\ last.status = 429) =>
        /\ DeniedUnchanged
        /\ ReportedRemaining = ResetAt(DayOf(GetLastReset(last.at)) + 1) - last.at
        /\ last.minutes \in 0..(HourMinutes - 1)
        /\ ReportedRemaining > 0
        /\ ReportedRemaining <= DayMinutes + HourMinutes

\* A claim has been denied with more than 24 hours left until the next reset.
C16_Witness == DeniedUnchanged /\ ReportedRemaining > DayMinutes

\* The balance change of one account by d.
OnlyDelta(u, d) == [a \in Accts |-> IF a = u THEN d ELSE 0]

\* C17: a deposit of a positive amount that found its account is answered
\* with success, has raised that balance by exactly the amount and has
\* appended one 'deposit' record whose balance_after is the returned balance;
\* a deposit for an unknown account is answered 404 and changed nothing.
C17_Deposit ==
    /\ (Answered("deposit") /\ last.status = 404) =>
         last.dBal = NoDelta /\ last.nLog = 0
    /\ (Answered("deposit") /\ PositiveInteger(last.amount) /\ last.newBal # NotRead) =>
         /\ last.status = 200
         /\ last.dBal = OnlyDelta(last.uuid, last.amount.val)
         /\ last.nLog = 1
         /\ \E i \in 1..Len(log) :
              log[i] = LogRecord(last, "deposit", last.amount.val, "", "", 0, 0, last.newBal)

\* C18: a withdraw that read a balance below count * denomination is answered
\* 'Insufficient funds' and changed nothing; any other withdraw that read
\* its balance is answered with success, has debited exactly that amount,
\* returns balance - amount and has appended one 'withdraw' record with the
\* denomination, the count and the returned balance.
C18_Withdraw ==
    (Answered("withdraw") /\ last.bal # NotRead) =>
        /\ last.amount.val = last.count.val * last.denom
        /\ IF last.bal < last.amount.val
           THEN /\ last.status = 400 /\ last.err = "Insufficient funds"
                /\ last.dBal = NoDelta /\ last.nLog = 0
           ELSE /\ last.status = 200
                /\ last.newBal = last.bal - last.amount.val
                /\ last.dBal = OnlyDelta(last.uuid, -last.amount.val)
                /\ last.nLog = 1
                /\ \E i \in 1..Len(log) :
                     log[i] = LogRecord(last, "withdraw", last.amount.val, "", "",
                                        last.denom, last.count.val, last.newBal)

\* Request r runs the upsert of its login.
UpsertStep(r) == req[r].op = "login" /\ req[r].pc = "insert" /\ StepOf(r)

\* C19: the upsert of a login leaves its uuid stored with the supplied name,
\* with balance 0 when the uuid was unknown and with its balance unchanged
\* when it was known, and changes no other account.
C19_LoginUpsert ==
    [][\A r \in Reqs : UpsertStep(r) =>
          /\ name' = [name EXCEPT ![req[r].uuid] = req[r].pname]
          /\ balance' = [balance EXCEPT ![req[r].uuid] =
                            IF name[req[r].uuid] = "" THEN 0 ELSE @]]_vars

\* The request of record rec carries a token that verifies.
HasValidToken(rec) == Len(rec.auth) >= 2 /\ rec.auth[2] = "signed"

\* The request of record rec comes from an allowlisted address.
FromAllowedIp(rec) == rec.remote[Len(rec.remote)] \in {AllowedIp, AllowedIpLocal}

\* C20: the handler of a route other than login runs only for requests with
\* a valid token that come from an allowlisted address; a request without
\* Authorization header is answered 401, one with a forged or expired token
\* 403, and one from an address outside the allowlist 403.
C20_AccessGated ==
    /\ \A r \in Reqs :
         (req[r].op = "deposit" /\ req[r].pc \notin {"idle", "verifyJWT", "verifyIP"}) =>
             HasValidToken(req[r]) /\ FromAllowedIp(req[r])
    /\ Answered("deposit") =>
         /\ last.auth = <<>> => last.status = 401
         /\ (Len(last.auth) >= 2 /\ ~HasValidToken(last)) => last.status = 403
         /\ (HasValidToken(last) /\ ~FromAllowedIp(last)) => last.status = 403

\* The check of request r answers.
CheckStep(r) == req[r].op = "check" /\ req[r].pc = "query" /\ StepOf(r)

\* C21: a check answers limitReached = true exactly when mob_limit_reached
\* holds a row for the account dated with the current day; so a mark on day
\* D is seen for the rest of D, not from D+1 on, and never without a mark.
\* Violated from the state a 404 deposit leaves: a mark served by the client
\* left with its block open is answered with success and not stored, while a
\* check served by that client reports it.
C21_CheckIffMarkedToday ==
    [][\A r \in Reqs : CheckStep(r) =>
          /\ last'.status = 200
          /\ last'.limitReached = (mobLimit[req[r].uuid] = DayOf(now))]_vars

\* The mark of request r answers.
MarkStep(r) == req[r].op = "mark" /\ req[r].pc = "query" /\ StepOf(r)

\* C22: every mark is answered with success and leaves mob_limit_reached
\* holding, for its account, the one row dated with the day of the mark, and
\* every other row as it was: a repeated mark of the same day changes
\* nothing.  Violated from the state a 404 deposit leaves: the mark served by
\* the client left with its block open is answered with success and stored
\* nowhere.
C22_MarkIdempotent ==
    [][\A r \in Reqs : MarkStep(r) =>
          /\ last'.status = 200
          /\ mobLimit' = [mobLimit EXCEPT ![req[r].uuid] = DayOf(now)]]_vars

\* The balance request r answers.
BalanceStep(r) == req[r].op = "balance" /\ req[r].pc = "query" /\ StepOf(r)

\* C23: getBalance changes nothing stored, answers 404 exactly when
\* user_funds holds no row for the account, and otherwise answers the stored
\* balance, so two calls with no committed change between them answer alike.
\* Violated from the state a 404 deposit leaves: after a login served by the
\* client left with its block open, getBalance served by that client answers
\* balance 0 for an account user_funds does not hold.
C23_BalanceRead ==
    [][\A r \in Reqs : BalanceStep(r) =>
          /\ UNCHANGED <<store, pend>>
          /\ IF name[req[r].uuid] = ""
             THEN last'.status = 404
             ELSE last'.status = 200 /\ last'.bal = balance[req[r].uuid]]_vars

\* The leaderboard request r answers.
TopStep(r) == req[r].op = "top" /\ req[r].pc = "query" /\ StepOf(r)

\* The accounts user_funds holds.
Stored == {a \in DOMAIN name : name[a] # ""}

\* top is a leaderboard of the stored accounts: as many entries as there are
\* accounts, ten at most, each a different stored account with its name and
\* balance, in non-increasing order of balance, none left out that has more
\* than one returned.
Leaderboard(top) ==
    /\ Len(top) = IF Cardinality(Stored) < 10 THEN Cardinality(Stored) ELSE 10
    /\ \A i \in 1..Len(top) :
         /\ top[i].uuid \in Stored
         /\ top[i].name = name[top[i].uuid]
         /\ top[i].balance = balance[top[i].uuid]
    /\ \A i, j \in 1..Len(top) :
         /\ i < j => top[i].balance >= top[j].balance
         /\ i # j => top[i].uuid # top[j].uuid
    /\ \A a \in Stored : \A i \in 1..Len(top) :
         balance[a] > top[i].balance => \E j \in 1..Len(top) : top[j].uuid = a

\* C24: top answers with a leaderboard of the stored accounts and changes
\* nothing stored.
C24_Leaderboard ==
    [][\A r \in Reqs : TopStep(r) =>
          /\ UNCHANGED <<store, pend>>
          /\ last'.status = 200
          /\ Leaderboard(last'.top)]_vars

\* Request r answers a pay, deposit or withdraw with success.
SuccessStep(r) ==
    /\ req[r].op \in {"pay", "deposit", "withdraw"} /\ StepOf(r)
    /\ last' # last /\ last'.status = 200

\* C25: the log only grows, the records it holds stay as they are, and the
\* step that answers a pay, deposit or withdraw with success adds exactly one
\* record, of that operation.  Violated when logTransactions is served by the
\* client a 404 deposit left with its block open: the operation is answered
\* with success and its record is stored nowhere.
C25_LogAppendOnly ==
    [][/\ Len(log') >= Len(log)
       /\ SubSeq(log', 1, Len(log)) = log
       /\ \A r \in Reqs : SuccessStep(r) =>
             /\ Len(log') = Len(log) + 1
             /\ log'[Len(log')].action = req[r].op
             /\ log'[Len(log')].uuid = req[r].uuid]_vars

\* C26: MongoDB variant: the debit of a withdraw is covered by the balance
\* it is applied to, so the balance never becomes negative.  Violated: the
\* balance is read by findOne and debited by a later findOneAndUpdate whose
\* filter does not look at it.
C26_MongoWithdrawAtomic ==
    [][\A r \in Reqs :
          (req[r].op = "withdraw" /\ req[r].pc = "update" /\ StepOf(r)) =>
              /\ balance[req[r].uuid] >= req[r].amount.val
              /\ balance'[req[r].uuid] >= 0]_vars

\* The transaction of the daily claim of request r commits.
MongoCreditStep(r) == req[r].op = "daily" /\ req[r].pc = "transaction" /\ StepOf(r)

\* C27: MongoDB variant: a daily claim credits only when daily_rewards shows
\* no claim of its identity in the reset period of its 'now', so two claims
\* of one identity in one period give one credit.  Violated: the check reads
\* daily_rewards before the transaction starts, and the transaction does not
\* look at it again.
C27_MongoDailySingleCredit ==
    [][\A r \in Reqs : MongoCreditStep(r) =>
          ~AlreadyClaimed(daily[req[r].discordId], GetLastReset(req[r].at))]_vars

\* C30: MongoDB variant: the claim of one account leaves the claim state
\* every other account's claim reads as it was, and a claim is refused as not
\* found only for an account user_funds does not hold.  Violated: the
\* tracker is read and written by the discord_id the collection users gives
\* for the uuid, which two accounts may share and an account may lack.
C30_MongoTrackerByAccount ==
    [][/\ \A r \in Reqs : MongoCreditStep(r) =>
            \A y \in Accts \ {req[r].uuid} :
                Users[y] # "" => daily'[Users[y]] = daily[Users[y]]
       /\ (DailyAnswered /\ last'.status = 404) => name[last'.uuid] = ""]_vars

\* C28: SQLite variant: the credit and the last_claim_at upsert of a daily
\* claim are stored together or not at all: a claim answered with an error
\* leaves the balance as it was.  Violated: the two statements commit one by
\* one, and a failure of the second leaves the credit of the first.
C28_SqliteDailyAtomic ==
    [][(DailyAnswered /\ last'.status # 200) =>
          balance' = balance /\ daily' = daily]_vars

\* C29: SQLite variant: a login answered with a token leaves user_funds
\* holding the account, with balance 0 when it was not held before.
\* Violated: the handler signs the token and runs no statement.
C29_SqliteLoginCreates ==
    [][(last' # last /\ last'.op = "login" /\ last'.status = 200) =>
          /\ name'[last'.uuid] # ""
          /\ name[last'.uuid] = "" => balance'[last'.uuid] = 0]_vars

\* C31: a step lowers the stored balance of an account only when it is a
\* step of a pay or withdraw whose verified token carries that account's
\* uuid: no request lowers the balance of an account other than its own.
C31_OnlyOwnDebit ==
    [][\A y \in Accts : balance'[y] < balance[y] =>
          \E r \in Reqs : /\ StepOf(r) /\ req[r].uuid = y
                          /\ req[r].op \in {"pay", "withdraw"}]_vars

\* A pay to another account has been answered with success: the payer's
\* balance went down and the recipient's did not.
C31_Witness ==
    /\ Answered("pay") /\ last.status = 200 /\ last.to # last.uuid
    /\ last.dBal[last.uuid] < 0 /\ last.dBal[last.to] > 0

\* C32: a step of a handler changes only the rows of the accounts its
\* request names: a pay no balance but the sender's and the recipient's; a
\* deposit, withdraw or daily claim no balance but the caller's; a pay,
\* deposit or withdraw no daily_rewards and no mob_limit_reached row; a
\* mob-limit mark or check no balance, no daily_rewards row and no log
\* record.  Violated when the handler commits on the client a 404 deposit
\* left with its block open, which carries the upsert of an earlier mark.
C32_Frame ==
    [][\A r \in Reqs : StepOf(r) =>
          /\ req[r].op = "pay" =>
                \A a \in Accts \ {req[r].uuid, req[r].to} : balance'[a] = balance[a]
          /\ req[r].op \in {"deposit", "withdraw", "daily"} =>
                \A a \in Accts \ {req[r].uuid} : balance'[a] = balance[a]
          /\ req[r].op \in {"pay", "deposit", "withdraw"} =>
                daily' = daily /\ mobLimit' = mobLimit
          /\ req[r].op \in {"mark", "check"} =>
                balance' = balance /\ daily' = daily /\ log' = log]_vars

\* C33: no client is idle in the pool with a transaction block open: every
\* handler closes the block it opened, with COMMIT or ROLLBACK, before it
\* releases the client.  Violated by the 404 path of deposit, which answers
\* and releases after BEGIN with neither.
C33_BlockClosedBeforeRelease ==
    \A i \in 1..Len(idle) : ~inTxn[idle[i]]

\* Request r holds its client and waits in logTransactions for the pool to
\* hand out another one.
HoldsAndWaits(r) ==
    /\ req[r].pc = "log" /\ req[r].conn # NoConn /\ holder[req[r].conn] = r
    /\ PoolExhausted

\* C34: no request waits for a pool client while it holds one, so the
\* clients of the pool are never all held by requests that each wait for a
\* further client.  Violated: after COMMIT the handler calls logTransactions,
\* which asks the pool for a client, before it releases its own.
C34_NoHoldAndWait ==
    /\ \A r \in Reqs : ~HoldsAndWaits(r)
    /\ ~(\A c \in Conns : holder[c] # 0 /\ HoldsAndWaits(holder[c]))

\* The transfer of a pay is stored.
TransferStored(rec) == rec.dBal = TransferDelta(rec.uuid, rec.to, rec.amount.val)

\* C35: MongoDB variant: a pay whose success answer has been sent has its
\* transfer committed, and a pay handler that has ended has sent an answer.
\* Violated: res.json is the last statement of the callback of
\* withTransaction, which commits only after the callback has returned.
C35_MongoAnswerAfterCommit ==
    /\ \A r \in Reqs : (req[r].op = "pay" /\ req[r].status = 200) => TransferStored(req[r])
    /\ Answered("pay") => last.status # 0
    /\ (Answered("pay") /\ last.status = 200) => TransferStored(last)

\* C36: a withdraw answered with success has not raised the balance of its
\* account and reports a withdrawn amount that is not negative.  Violated
\* by a negative denomination: only count is checked to be positive, and
\* amount = count * denomination is then negative.
C36_WithdrawOnlyBurns ==
    (Answered("withdraw") /\ last.status = 200) =>
        /\ last.dBal[last.uuid] <= 0
        /\ last.amount.val >= 0

\* C37: when the transaction of a pay commits, newSenderBal, which the
\* handler then writes to the log as balance_after and answers as
\* new_sender_balance, is the stored balance of the sender.  Violated when
\* the recipient is the sender: the row is debited and credited, and
\* newSenderBal is the balance read minus the amount.
C37_PayReportsBalance ==
    [][\A r \in Reqs :
          (req[r].op = "pay" /\ req[r].pc = "commit" /\ req'[r].pc = "log") =>
              req'[r].newBal = balance'[req[r].uuid]]_vars

\* C38: a pool client is held only by a request in flight whose client it
\* is, so none is held when no request is in flight, and a pay, deposit,
\* withdraw or daily handler that has ended has sent an answer.  Violated
\* on a database-error path: when the ROLLBACK of the catch block rejects,
\* the answer after it is not sent.
C38_ReleasedAndAnswered ==
    /\ \A c \in Conns : holder[c] # 0 =>
          ~Free(holder[c]) /\ req[holder[c]].conn = c
    /\ (\A r \in Reqs : Free(r)) => \A c \in Conns : holder[c] = 0
    /\ (last.pc = "done" /\ last.op \in {"pay", "deposit", "withdraw", "daily"}) =>
          last.status # 0
====
